---- MODULE Spec2Model ----
(***************************************************************************)
(* A model of the xcode crate: the Old-Style Plist lexer, parser and       *)
(* writer (src/parser, src/writer), the typed object view (src/objects)    *)
(* and the project facade (src/project/xcode_project.rs).                  *)
(*                                                                         *)
(* Text and strings are sequences of character codes (naturals).  The      *)
(* lexer scans bytes; every byte of a multi-byte UTF-8 character is >=     *)
(* 0x80 and none of them is special to the lexer, so a character above     *)
(* 0x7F is modelled as one code.                                           *)
(***************************************************************************)
EXTENDS Integers, Sequences, FiniteSets, TLC

\* ------------------------------------------------------------------------
\* Characters and string literals
\* ------------------------------------------------------------------------

\* The printable ASCII characters, code 32 (space) to 126 (tilde), in order;
\* the double quote (34), the backslash (92) and the backtick (96) are
\* written by code only (34, 92, 96) and have a placeholder here.
Printable ==
  << " ", "!", "DQ", "#", "$", "%", "&", "'", "(", ")", "*", "+", ",", "-", ".", "/",
     "0", "1", "2", "3", "4", "5", "6", "7", "8", "9", ":", ";", "<", "=", ">", "?",
     "@", "A", "B", "C", "D", "E", "F", "G", "H", "I", "J", "K", "L", "M", "N", "O",
     "P", "Q", "R", "S", "T", "U", "V", "W", "X", "Y", "Z", "[", "BS", "]", "^", "_",
     "BT", "a", "b", "c", "d", "e", "f", "g", "h", "i", "j", "k", "l", "m", "n", "o",
     "p", "q", "r", "s", "t", "u", "v", "w", "x", "y", "z", "{", "|", "}", "~" >>

\* The code of a printable character.
Ord(c) == 31 + (CHOOSE i \in 1..Len(Printable) : Printable[i] = c)

RECURSIVE Cs(_)
\* The string whose characters are the one-character strings of tuple t.
Cs(t) == IF t = <<>> THEN <<>> ELSE <<Ord(Head(t))>> \o Cs(Tail(t))


IsDigit(b) == b >= 48 /\ b <= 57
IsUpper(b) == b >= 65 /\ b <= 90
IsLower(b) == b >= 97 /\ b <= 122
IsAlnum(b) == IsDigit(b) \/ IsUpper(b) \/ IsLower(b)
IsHexDigit(b) == IsDigit(b) \/ (b >= 65 /\ b <= 70) \/ (b >= 97 /\ b <= 102)
IsOctDigit(b) == b >= 48 /\ b <= 55
\* u8::is_ascii_whitespace: space, tab, line feed, form feed, carriage return
IsAsciiWhitespace(b) == b \in {32, 9, 10, 12, 13}

HexVal(b) == IF IsDigit(b) THEN b - 48 ELSE IF b >= 97 THEN b - 87 ELSE b - 55
UpperHexDigit(d) == IF d < 10 THEN 48 + d ELSE 55 + d
LowerHexDigit(d) == IF d < 10 THEN 48 + d ELSE 87 + d

AllOf(s, P(_)) == \A i \in 1..Len(s) : P(s[i])
Contains(s, b) == \E i \in 1..Len(s) : s[i] = b
StartsWith(s, p) == Len(s) >= Len(p) /\ SubSeq(s, 1, Len(p)) = p
EndsWith(s, p) == Len(s) >= Len(p) /\ SubSeq(s, Len(s) - Len(p) + 1, Len(s)) = p
Range(seq) == { seq[i] : i \in 1..Len(seq) }
Drop(s, k) == SubSeq(s, k + 1, Len(s))
Take(s, k) == SubSeq(s, 1, k)

RECURSIVE Concat(_)
\* The concatenation of a sequence of strings.
Concat(ss) == IF ss = <<>> THEN <<>> ELSE Head(ss) \o Concat(Tail(ss))

RECURSIVE NatToString(_)
NatToString(n) ==
  IF n < 10 THEN <<48 + n>> ELSE NatToString(n \div 10) \o <<48 + (n % 10)>>

\* i64::to_string
IntToString(n) == IF n < 0 THEN <<45>> \o NatToString(0 - n) ELSE NatToString(n)

\* Byte-wise lexicographic order of strings (str::cmp).
RECURSIVE StrLess(_, _)
StrLess(a, b) ==
  IF b = <<>> THEN FALSE
  ELSE IF a = <<>> THEN TRUE
  ELSE IF Head(a) # Head(b) THEN Head(a) < Head(b)
  ELSE StrLess(Tail(a), Tail(b))

\* ------------------------------------------------------------------------
\* PlistValue (src/types/plist.rs)
\* ------------------------------------------------------------------------

\* Every value is a record of the same shape; t is the variant.  s holds the
\* text of a String, the bytes of a Data, the decimal digits of an Integer
\* (its i64 value written by to_string: the model's integers are 32-bit, an
\* i64 is not) and the integer-part digits of a Float; f holds the fraction
\* digits of a Float; items holds the elements of an Array and the
\* (key, value) entries of an Object, in order.
StringV(str) == [t |-> "String", s |-> str, f |-> <<>>, neg |-> FALSE, items |-> <<>>]
IntegerV(digits) == [t |-> "Integer", s |-> digits, f |-> <<>>, neg |-> FALSE, items |-> <<>>]
\* A Float is the decimal it was read from: sign, integer part without
\* leading zeros and fraction digits without trailing zeros (exact for the
\* short literals of this model, far below the precision of an f64).
FloatV(negative, ip, frac) ==
  [t |-> "Float", s |-> ip, f |-> frac, neg |-> negative, items |-> <<>>]
DataV(bytes) == [t |-> "Data", s |-> bytes, f |-> <<>>, neg |-> FALSE, items |-> <<>>]
ArrayV(elems) == [t |-> "Array", s |-> <<>>, f |-> <<>>, neg |-> FALSE, items |-> elems]
ObjectV(entries) == [t |-> "Object", s |-> <<>>, f |-> <<>>, neg |-> FALSE, items |-> entries]
\* PlistValue::Integer(n) for a small n
IntV(i) == IntegerV(IntToString(i))

Entry(k, v) == [key |-> k, value |-> v]

is_string(v) == v.t = "String"
is_object(v) == v.t = "Object"
is_array(v) == v.t = "Array"

\* Option<T>: a sequence of length 0 (None) or 1 (Some).
None == <<>>
Some(x) == <<x>>
IsSome(o) == Len(o) = 1
IsNone(o) == Len(o) = 0
Unwrap(o) == o[1]

\* ---- IndexMap<String, PlistValue> as a sequence of entries ----

MapHas(m, k) == \E i \in 1..Len(m) : m[i].key = k
MapIndex(m, k) == CHOOSE i \in 1..Len(m) : m[i].key = k
\* IndexMap::get
MapGet(m, k) == IF MapHas(m, k) THEN Some(m[MapIndex(m, k)].value) ELSE None
\* An insert that moves an existing key to the end (swap of remove and push).
MapInsertLast(m, k, v) ==
  Append(SelectSeq(m, LAMBDA e : e.key # k), [key |-> k, value |-> v])

\* IndexMap::insert: an existing key keeps its position, a new key is appended
MapInsert(m, k, v) ==
  IF MapHas(m, k)
  THEN [m EXCEPT ![MapIndex(m, k)] = Entry(k, v)]
  ELSE Append(m, Entry(k, v))
\* IndexMap::shift_remove
MapRemove(m, k) ==
  IF MapHas(m, k)
  THEN SubSeq(m, 1, MapIndex(m, k) - 1) \o SubSeq(m, MapIndex(m, k) + 1, Len(m))
  ELSE m
\* map[key] for a key that is present
MapVal(m, k) == m[MapIndex(m, k)].value
MapKeys(m) == {m[i].key : i \in 1..Len(m)}

\* PlistValue::get(key).and_then(as_str)
GetStr(m, k) ==
  IF MapHas(m, k) /\ m[MapIndex(m, k)].value.t = "String"
  THEN Some(m[MapIndex(m, k)].value.s) ELSE None
\* PlistValue::get(key).and_then(as_array)
GetArray(m, k) ==
  IF MapHas(m, k) /\ m[MapIndex(m, k)].value.t = "Array"
  THEN Some(m[MapIndex(m, k)].value.items) ELSE None
\* PlistValue::get(key).and_then(as_object)
GetObject(m, k) ==
  IF MapHas(m, k) /\ m[MapIndex(m, k)].value.t = "Object"
  THEN Some(m[MapIndex(m, k)].value.items) ELSE None
\* PlistValue::get(key).and_then(as_integer)
GetInt(m, k) ==
  IF MapHas(m, k) /\ m[MapIndex(m, k)].value.t = "Integer"
  THEN Some(m[MapIndex(m, k)].value.s) ELSE None

\* ------------------------------------------------------------------------
\* Escape codec (src/parser/escape.rs, src/writer/quotes.rs)
\* ------------------------------------------------------------------------

\* The Unicode code points of the NeXTSTEP bytes 0x80..0xFF, in byte order.
NEXT_STEP_MAPPINGS ==
  <<
     160, 192, 193, 194, 195, 196, 197, 199,
     200, 201, 202, 203, 204, 205, 206, 207,
     208, 209, 210, 211, 212, 213, 214, 217,
     218, 219, 220, 221, 222, 181, 215, 247,
     169, 161, 162, 163, 8260, 165, 402, 167,
     164, 8217, 8220, 171, 8249, 8250, 64257, 64258,
     174, 8211, 8224, 8225, 183, 166, 182, 8226,
     8218, 8222, 8221, 187, 8230, 8240, 172, 191,
     185, 715, 180, 710, 732, 175, 728, 729,
     168, 178, 730, 184, 179, 733, 731, 711,
     8212, 177, 188, 189, 190, 224, 225, 226,
     227, 228, 229, 231, 232, 233, 234, 235,
     236, 198, 237, 170, 238, 239, 240, 241,
     321, 216, 338, 186, 242, 243, 244, 245,
     246, 230, 249, 250, 251, 305, 252, 253,
     322, 248, 339, 223, 254, 255, 65533, 65533
  >>

\* The code without the table.
nextstep_unmapped(code) == code

nextstep_to_unicode(code) ==
  IF code < 128 \/ code > 255 THEN code ELSE NEXT_STEP_MAPPINGS[code - 127]

RECURSIVE RadixVal(_, _)
\* u32::from_str_radix on a string of digits of that base
RadixVal(s, base) ==
  IF s = <<>> THEN 0
  ELSE base * RadixVal(Take(s, Len(s) - 1), base) + HexVal(s[Len(s)])

\* char::from_u32: the surrogates are no characters
IsChar(code) == ~(code >= 55296 /\ code <= 57343)

\* The run of at most three octal digits that starts at index i (1-based).
RECURSIVE OctalRun(_, _, _)
OctalRun(s, i, left) ==
  IF left = 0 \/ i > Len(s) \/ ~IsOctDigit(s[i]) THEN <<>>
  ELSE <<s[i]>> \o OctalRun(s, i + 1, left - 1)

\* The character a one-letter escape names, or -1.
SimpleEscape(next) ==
  CASE next = 97 -> 7      \* \a
    [] next = 98 -> 8      \* \b
    [] next = 102 -> 12    \* \f
    [] next = 110 -> 10    \* \n
    [] next = 114 -> 13    \* \r
    [] next = 116 -> 9     \* \t
    [] next = 118 -> 11    \* \v
    [] next = 34 -> 34     \* \"
    [] next = 39 -> 39     \* \'
    [] next = 92 -> 92     \* \\
    [] next = 10 -> 10     \* backslash, newline
    [] OTHER -> -1

RECURSIVE UnescapeFrom(_, _)
\* The loop of unescape_string from byte index i (0-based).
UnescapeFrom(s, i) ==
  LET len == Len(s) IN
  IF i >= len THEN <<>>
  ELSE IF s[i + 1] = 92 /\ i + 1 < len THEN
    LET next == s[i + 2] IN
    IF SimpleEscape(next) >= 0 THEN <<SimpleEscape(next)>> \o UnescapeFrom(s, i + 2)
    ELSE IF next = 85 /\ i + 5 < len THEN
      LET hex == SubSeq(s, i + 3, i + 6) IN
      IF AllOf(hex, IsHexDigit)
      THEN (IF IsChar(RadixVal(hex, 16)) THEN <<RadixVal(hex, 16)>> ELSE <<>>)
           \o UnescapeFrom(s, i + 6)
      ELSE <<92>> \o UnescapeFrom(s, i + 1)
    ELSE IF IsOctDigit(next) THEN
      LET octal == OctalRun(s, i + 2, 3)
          code == RadixVal(octal, 8)
          mapped == IF code >= 128 THEN nextstep_to_unicode(code) ELSE code
      IN <<mapped>> \o UnescapeFrom(s, i + 1 + Len(octal))
    ELSE <<92, next>> \o UnescapeFrom(s, i + 2)
  ELSE <<s[i + 1]>> \o UnescapeFrom(s, i + 1)

unescape_string(input) == UnescapeFrom(input, 0)

\* add_quotes with the hex digits of the \U escape in upper case.
EscapeCharUpperHex(c) ==
  CASE c = 7 -> <<92, 97>>
    [] c = 8 -> <<92, 98>>
    [] c = 12 -> <<92, 102>>
    [] c = 13 -> <<92, 114>>
    [] c = 9 -> <<92, 116>>
    [] c = 11 -> <<92, 118>>
    [] c = 10 -> <<92, 110>>
    [] c = 34 -> <<92, 34>>
    [] c = 92 -> <<92, 92>>
    [] OTHER ->
         IF c < 32
         THEN <<92, 85, 48, 48, UpperHexDigit(c \div 16), UpperHexDigit(c % 16)>>
         ELSE <<c>>

\* What add_quotes writes for one character.
EscapeChar(c) ==
  CASE c = 7 -> <<92, 97>>
    [] c = 8 -> <<92, 98>>
    [] c = 12 -> <<92, 102>>
    [] c = 13 -> <<92, 114>>
    [] c = 9 -> <<92, 116>>
    [] c = 11 -> <<92, 118>>
    [] c = 10 -> <<92, 110>>
    [] c = 34 -> <<92, 34>>
    [] c = 92 -> <<92, 92>>
    [] OTHER ->
         IF c < 32
         THEN <<92, 85, 48, 48, LowerHexDigit(c \div 16), LowerHexDigit(c % 16)>>
         ELSE <<c>>

RECURSIVE add_quotes(_)
add_quotes(s) == IF s = <<>> THEN <<>> ELSE EscapeChar(Head(s)) \o add_quotes(Tail(s))

\* quotes.rs: is_safe_unquoted
IsSafeByte(b) == IsAlnum(b) \/ b \in {95, 36, 47, 58, 46}
is_safe_unquoted(s) == s # <<>> /\ AllOf(s, IsSafeByte)

ensure_quotes(value) ==
  LET escaped == add_quotes(value) IN
  IF is_safe_unquoted(escaped) THEN escaped ELSE <<34>> \o escaped \o <<34>>

RECURSIVE format_data_hex(_)
format_data_hex(data) ==
  IF data = <<>> THEN <<>>
  ELSE <<UpperHexDigit(Head(data) \div 16), UpperHexDigit(Head(data) % 16)>>
       \o format_data_hex(Tail(data))

format_data(data) == <<60>> \o format_data_hex(data) \o <<62>>

\* serializer.rs: is_safe_unquoted, needs_escaping, write_ensure_quotes_to
serializer_is_safe_unquoted(s) ==
  s # <<>> /\ AllOf(s, LAMBDA b : IsAlnum(b) \/ b = 95 \/ b = 36 \/ b = 47 \/ b = 58 \/ b = 46)
needs_escaping(s) == \E i \in 1..Len(s) : s[i] < 32 \/ s[i] = 34 \/ s[i] = 92 \/ s[i] = 127
write_ensure_quotes_to(value) ==
  IF serializer_is_safe_unquoted(value)
  THEN (IF needs_escaping(value) THEN add_quotes(value) ELSE value)
  ELSE <<34>> \o add_quotes(value) \o <<34>>


\* ------------------------------------------------------------------------
\* Lexer (src/parser/lexer.rs)
\* ------------------------------------------------------------------------

\* IS_LITERAL_CHAR: [a-zA-Z0-9_$/:.-]
IS_LITERAL_CHAR(b) == IsAlnum(b) \/ b \in {95, 36, 47, 58, 46, 45}

\* A token: its kind and, for the three literal kinds, its text or bytes.
Token(kind, text) == [k |-> kind, s |-> text]

\* Byte i (0-based) of the input.
At(input, i) == input[i + 1]

\* The first position from pos on (0-based) whose byte satisfies Stop, or the
\* length of the input: the scanning loops `while pos < len && !stop`.
ScanUntil(input, pos, Stop(_)) ==
  IF \E i \in pos..(Len(input) - 1) : Stop(At(input, i))
  THEN CHOOSE i \in pos..(Len(input) - 1) :
         Stop(At(input, i)) /\ \A j \in pos..(i - 1) : ~Stop(At(input, j))
  ELSE IF pos > Len(input) THEN pos ELSE Len(input)

IsNotWhitespace(b) == b \notin {32, 9, 13, 10}
IsNewline(b) == b = 10

SkipWhitespace(input, pos) == ScanUntil(input, pos, IsNotWhitespace)
SkipLineComment(input, pos) == ScanUntil(input, pos, IsNewline)

\* The scan for the end of a block comment: past the first "*/" from pos on,
\* or where the loop `while pos + 1 < len` gives up.
SkipBlockComment(input, pos) ==
  IF \E i \in pos..(Len(input) - 2) : At(input, i) = 42 /\ At(input, i + 1) = 47
  THEN 2 + CHOOSE i \in pos..(Len(input) - 2) :
             /\ At(input, i) = 42 /\ At(input, i + 1) = 47
             /\ \A j \in pos..(i - 1) : ~(At(input, j) = 42 /\ At(input, j + 1) = 47)
  ELSE IF pos + 1 < Len(input) THEN Len(input) - 1 ELSE pos

RECURSIVE skip_trivia(_, _)

\* skip_trivia once the whitespace before pos is skipped.
SkipComment(input, pos) ==
  IF pos + 1 < Len(input) /\ At(input, pos) = 47 /\ At(input, pos + 1) = 47
  THEN skip_trivia(input, SkipLineComment(input, pos + 2))
  ELSE IF pos + 1 < Len(input) /\ At(input, pos) = 47 /\ At(input, pos + 1) = 42
  THEN skip_trivia(input, SkipBlockComment(input, pos + 2))
  ELSE pos

\* The position after whitespace and comments.
skip_trivia(input, pos0) == SkipComment(input, SkipWhitespace(input, pos0))

\* The scan of read_quoted_string for the closing quote: [end, has_escape].
RECURSIVE ScanQuoted(_, _, _, _)
ScanQuoted(input, quote, end, has_escape) ==
  IF end < Len(input) /\ At(input, end) # quote
  THEN IF At(input, end) = 92
       THEN ScanQuoted(input, quote, IF end + 1 < Len(input) THEN end + 2 ELSE end + 1, TRUE)
       ELSE ScanQuoted(input, quote, end + 1, has_escape)
  ELSE [end |-> end, has_escape |-> has_escape]

\* A lexer step's result: ok, the token and the position after it.
LexOk(tok, pos) == [ok |-> TRUE, tok |-> tok, pos |-> pos]
LexErr == [ok |-> FALSE, tok |-> Token("Error", <<>>), pos |-> 0]

\* The token of a quoted string whose scan ended as scan says.
QuotedToken(input, start, scan) ==
  IF scan.end >= Len(input) THEN LexErr
  ELSE LexOk(Token("QuotedString",
                   IF scan.has_escape
                   THEN unescape_string(SubSeq(input, start + 1, scan.end))
                   ELSE SubSeq(input, start + 1, scan.end)),
             scan.end + 1)

read_quoted_string(input, pos) ==
  QuotedToken(input, pos + 1, ScanQuoted(input, At(input, pos), pos + 1, FALSE))

RECURSIVE HexPairs(_)
\* The bytes of a run of hex digits; a last odd digit is a byte of its own.
HexPairs(hex) ==
  IF hex = <<>> THEN <<>>
  ELSE IF Len(hex) = 1 THEN <<HexVal(hex[1])>>
  ELSE <<16 * HexVal(hex[1]) + HexVal(hex[2])>> \o HexPairs(Drop(hex, 2))

IsCloseAngle(b) == b = 62

\* The token of a data literal whose '>' is at pos.
DataToken(input, start, pos) ==
  IF pos >= Len(input) THEN LexErr
  ELSE IF \E i \in (start + 1)..pos :
            ~IsHexDigit(input[i]) /\ ~IsAsciiWhitespace(input[i])
  THEN LexErr
  ELSE LexOk(Token("DataLiteral",
                   HexPairs(SelectSeq(SubSeq(input, start + 1, pos), IsHexDigit))),
             pos + 1)

read_data_literal(input, pos0) ==
  DataToken(input, pos0 + 1, ScanUntil(input, pos0 + 1, IsCloseAngle))

IsNotLiteralChar(b) == ~IS_LITERAL_CHAR(b)

LiteralToken(input, pos, end) == LexOk(Token("StringLiteral", SubSeq(input, pos + 1, end)), end)

read_string_literal(input, pos) ==
  LiteralToken(input, pos, ScanUntil(input, pos, IsNotLiteralChar))

\* The token that starts with byte b at pos.
TokenOf(input, pos, b) ==
  CASE b = 123 -> LexOk(Token("OpenBrace", <<>>), pos + 1)
    [] b = 125 -> LexOk(Token("CloseBrace", <<>>), pos + 1)
    [] b = 40 -> LexOk(Token("OpenParen", <<>>), pos + 1)
    [] b = 41 -> LexOk(Token("CloseParen", <<>>), pos + 1)
    [] b = 61 -> LexOk(Token("Equals", <<>>), pos + 1)
    [] b = 59 -> LexOk(Token("Semicolon", <<>>), pos + 1)
    [] b = 44 -> LexOk(Token("Comma", <<>>), pos + 1)
    [] b = 60 -> read_data_literal(input, pos)
    [] b = 34 \/ b = 39 -> read_quoted_string(input, pos)
    [] OTHER -> IF IS_LITERAL_CHAR(b) THEN read_string_literal(input, pos) ELSE LexErr

\* next_token once trivia is skipped: end of input is the token "EOF".
TokenAt(input, pos) ==
  IF pos >= Len(input) THEN LexOk(Token("EOF", <<>>), pos)
  ELSE TokenOf(input, pos, At(input, pos))

next_token(input, pos0) == TokenAt(input, skip_trivia(input, pos0))

RECURSIVE TokenizeFrom(_, _)

\* tok before the tokens of rest, when rest is no error.
PushToken(tok, rest) ==
  IF rest.ok THEN [ok |-> TRUE, toks |-> <<tok>> \o rest.toks] ELSE rest

\* One iteration of the loop of tokenize_all, r being the next token.
TokenizeStep(input, r) ==
  IF ~r.ok THEN [ok |-> FALSE, toks |-> <<>>]
  ELSE IF r.tok.k = "EOF" THEN [ok |-> TRUE, toks |-> <<>>]
  ELSE PushToken(r.tok, TokenizeFrom(input, r.pos))

TokenizeFrom(input, pos) == TokenizeStep(input, next_token(input, pos))

tokenize_all(input) == TokenizeFrom(input, 0)

\* ------------------------------------------------------------------------
\* Parser (src/parser/parser.rs)
\* ------------------------------------------------------------------------

\* MAX_SAFE_INTEGER = 2^53 - 1, as its decimal digits
MAX_SAFE_INTEGER == Cs(<<"9","0","0","7","1","9","9","2","5","4","7","4","0","9","9","1">>)

\* Only the bound of i64: a literal of up to 18 digits is within it.
WithinI64(digits) == Len(digits) <= 18

\* n <= MAX_SAFE_INTEGER for the all-digit literal of n with no leading zero
\* (a literal past i64::MAX fails to parse and is past the bound as well).
WithinSafeInteger(digits) ==
  \/ Len(digits) < Len(MAX_SAFE_INTEGER)
  \/ Len(digits) = Len(MAX_SAFE_INTEGER) /\ ~StrLess(MAX_SAFE_INTEGER, digits)

\* Index of the first '.' of s (0 if none).
FirstDot(s) ==
  IF Contains(s, 46)
  THEN CHOOSE i \in 1..Len(s) : s[i] = 46 /\ \A j \in 1..(i - 1) : s[j] # 46
  ELSE 0

RECURSIVE StripLeadingZeros(_)
StripLeadingZeros(d) ==
  IF Len(d) > 1 /\ Head(d) = 48 THEN StripLeadingZeros(Tail(d))
  ELSE IF d = <<>> THEN <<48>> ELSE d

\* The part of the literal after one leading sign.
Unsigned(literal) ==
  IF literal # <<>> /\ (Head(literal) = 43 \/ Head(literal) = 45)
  THEN Tail(literal) ELSE literal

\* is_numeric for the unsigned part s whose first '.' is at index dot.
IsDecimal(s, dot) ==
  /\ dot > 0
  /\ AllOf(Take(s, dot - 1), IsDigit)
  /\ AllOf(Drop(s, dot), IsDigit)
  /\ Len(s) > 1

is_numeric(literal) == IsDecimal(Unsigned(literal), FirstDot(Unsigned(literal)))

\* The Float of an unsigned decimal s with its first '.' at index dot.
DecimalFloat(negative, s, dot) ==
  FloatV(negative, StripLeadingZeros(Take(s, dot - 1)), Drop(s, dot))

\* str::parse::<f64> of a literal that is_numeric accepts and that does not
\* end in '0'.
ParseFloat(literal) ==
  DecimalFloat(Head(literal) = 45, Unsigned(literal), FirstDot(Unsigned(literal)))

parse_type(literal) ==
  IF AllOf(literal, IsDigit) /\ literal # <<>>
  THEN (IF (Len(literal) > 1 /\ Head(literal) = 48) \/ ~WithinSafeInteger(literal)
        THEN StringV(literal) ELSE IntegerV(literal))
  ELSE IF is_numeric(literal) /\ literal[Len(literal)] # 48
  THEN ParseFloat(literal)
  ELSE StringV(literal)

\* A parser step's result: ok, the value and the token position after it.
POk(v, pos) == [ok |-> TRUE, val |-> v, pos |-> pos]
PErr == [ok |-> FALSE, val |-> StringV(<<>>), pos |-> 0]

\* Token i (0-based) of the stream, or EOF past its end (Parser::peek).
Peek(toks, pos) == IF pos < Len(toks) THEN toks[pos + 1] ELSE Token("EOF", <<>>)

RECURSIVE parse_value(_, _)
RECURSIVE ObjectItems(_, _, _)
RECURSIVE ArrayItems(_, _, _)

\* parse_object_item after `key =`, v being the parsed value: the ';' and
\* the insertion into the map.
ObjectItemValue(toks, map, key, v) ==
  IF ~v.ok THEN PErr
  ELSE IF Peek(toks, v.pos).k # "Semicolon" THEN PErr
  ELSE ObjectItems(toks, v.pos + 1, MapInsert(map, key, v.val))

\* One iteration of the loop of parse_object, tok being the token at pos.
ObjectItemAt(toks, pos, map, tok) ==
  IF tok.k = "CloseBrace" THEN POk(ObjectV(map), pos + 1)
  ELSE IF tok.k \notin {"QuotedString", "StringLiteral"} THEN PErr
  ELSE IF Peek(toks, pos + 1).k # "Equals" THEN PErr
  ELSE ObjectItemValue(toks, map, tok.s, parse_value(toks, pos + 2))

\* The loop of parse_object after the opening brace, map being built.
ObjectItems(toks, pos, map) == ObjectItemAt(toks, pos, map, Peek(toks, pos))

\* The end of one iteration of the loop of parse_array, v being the item.
ArrayItemValue(toks, items, v) ==
  IF ~v.ok THEN PErr
  ELSE ArrayItems(toks, IF Peek(toks, v.pos).k = "Comma" THEN v.pos + 1 ELSE v.pos,
                  Append(items, v.val))

\* The loop of parse_array after the opening parenthesis.
ArrayItems(toks, pos, items) ==
  IF Peek(toks, pos).k = "CloseParen" THEN POk(ArrayV(items), pos + 1)
  ELSE IF Peek(toks, pos).k = "EOF" THEN PErr
  ELSE ArrayItemValue(toks, items, parse_value(toks, pos))

\* parse_value, tok being the token at pos.
ValueAt(toks, pos, tok) ==
  CASE tok.k = "OpenBrace" -> ObjectItems(toks, pos + 1, <<>>)
    [] tok.k = "OpenParen" -> ArrayItems(toks, pos + 1, <<>>)
    [] tok.k = "DataLiteral" -> POk(DataV(tok.s), pos + 1)
    [] tok.k = "QuotedString" -> POk(StringV(tok.s), pos + 1)
    [] tok.k = "StringLiteral" -> POk(parse_type(tok.s), pos + 1)
    [] OTHER -> PErr

parse_value(toks, pos) == ValueAt(toks, pos, Peek(toks, pos))

\* parse_head: an object or an array; what follows it is never read.
parse_head(toks) ==
  IF Peek(toks, 0).k \in {"OpenBrace", "OpenParen"} THEN parse_value(toks, 0) ELSE PErr

\* The Result of parse: Ok(value) is [ok |-> TRUE, val |-> value].
ParseResult(r) == [ok |-> r.ok, val |-> IF r.ok THEN r.val ELSE StringV(<<>>)]

ParseTokens(lexed) ==
  IF lexed.ok THEN ParseResult(parse_head(lexed.toks)) ELSE ParseResult(PErr)

parse(text) == ParseTokens(tokenize_all(text))

\* ------------------------------------------------------------------------
\* String literals of the source
\* ------------------------------------------------------------------------

K_isa == Cs(<<"i","s","a">>)
K_name == Cs(<<"n","a","m","e">>)
K_files == Cs(<<"f","i","l","e","s">>)
K_path == Cs(<<"p","a","t","h">>)
K_productName == Cs(<<"p","r","o","d","u","c","t","N","a","m","e">>)
K_fileRef == Cs(<<"f","i","l","e","R","e","f">>)
K_productRef == Cs(<<"p","r","o","d","u","c","t","R","e","f">>)
K_buildConfigurationList == Cs(<<"b","u","i","l","d","C","o","n","f","i","g","u","r","a","t","i","o","n","L","i","s","t">>)
K_targets == Cs(<<"t","a","r","g","e","t","s">>)
K_containerPortal == Cs(<<"c","o","n","t","a","i","n","e","r","P","o","r","t","a","l">>)
K_remoteInfo == Cs(<<"r","e","m","o","t","e","I","n","f","o">>)
K_repositoryURL == Cs(<<"r","e","p","o","s","i","t","o","r","y","U","R","L">>)
K_relativePath == Cs(<<"r","e","l","a","t","i","v","e","P","a","t","h">>)
K_objects == Cs(<<"o","b","j","e","c","t","s">>)
K_remoteGlobalIDString == Cs(<<"r","e","m","o","t","e","G","l","o","b","a","l","I","D","S","t","r","i","n","g">>)
K_TestTargetID == Cs(<<"T","e","s","t","T","a","r","g","e","t","I","D">>)
PBXBuildFile == Cs(<<"P","B","X","B","u","i","l","d","F","i","l","e">>)
PBXFileReference == Cs(<<"P","B","X","F","i","l","e","R","e","f","e","r","e","n","c","e">>)
PBXProject == Cs(<<"P","B","X","P","r","o","j","e","c","t">>)
PBXGroup == Cs(<<"P","B","X","G","r","o","u","p">>)
XCConfigurationList == Cs(<<"X","C","C","o","n","f","i","g","u","r","a","t","i","o","n","L","i","s","t">>)
XCRemoteSwiftPackageReference == Cs(<<"X","C","R","e","m","o","t","e","S","w","i","f","t","P","a","c","k","a","g","e","R","e","f","e","r","e","n","c","e">>)
XCLocalSwiftPackageReference == Cs(<<"X","C","L","o","c","a","l","S","w","i","f","t","P","a","c","k","a","g","e","R","e","f","e","r","e","n","c","e">>)
PBXContainerItemProxy == Cs(<<"P","B","X","C","o","n","t","a","i","n","e","r","I","t","e","m","P","r","o","x","y">>)
S_BuildPhase == Cs(<<"B","u","i","l","d","P","h","a","s","e">>)
S_PBX == Cs(<<"P","B","X">>)
S_Unknown == Cs(<<"U","n","k","n","o","w","n">>)
S_ProjectObject == Cs(<<"P","r","o","j","e","c","t"," ","o","b","j","e","c","t">>)
S_MissingBuildPhase == Cs(<<"[","m","i","s","s","i","n","g"," ","b","u","i","l","d"," ","p","h","a","s","e","]">>)
S_Null == Cs(<<"(","n","u","l","l",")">>)
S_In == Cs(<<" ","i","n"," ">>)
S_HttpsGithub == Cs(<<"h","t","t","p","s",":","/","/","g","i","t","h","u","b",".","c","o","m","/">>)
S_HttpGithub == Cs(<<"h","t","t","p",":","/","/","g","i","t","h","u","b",".","c","o","m","/">>)
S_DotGit == Cs(<<".","g","i","t">>)
S_ConfigListFor == Cs(<<"B","u","i","l","d"," ","c","o","n","f","i","g","u","r","a","t","i","o","n"," ","l","i","s","t"," ","f","o","r"," ">>)
S_ConfigListUnknown == Cs(<<"B","u","i","l","d"," ","c","o","n","f","i","g","u","r","a","t","i","o","n"," ","l","i","s","t"," ","f","o","r"," ","[","u","n","k","n","o","w","n","]">>)
S_SWIFT_VERSION == Cs(<<"S","W","I","F","T","_","V","E","R","S","I","O","N">>)
S_MARKETING_VERSION == Cs(<<"M","A","R","K","E","T","I","N","G","_","V","E","R","S","I","O","N">>)
S_DEPLOYMENT_TARGET == Cs(<<"_","D","E","P","L","O","Y","M","E","N","T","_","T","A","R","G","E","T">>)
S_Shebang == Cs(<<"!","$","*","U","T","F","8","*","$","!">>)

\* ------------------------------------------------------------------------
\* Comment resolver (src/writer/comments.rs)
\* ------------------------------------------------------------------------

\* a.or_else(|| b) on options
OrElse(a, b) == IF IsSome(a) THEN a ELSE b

\* Option<String>::unwrap_or_default
UnwrapOrDefault(o) == IF IsSome(o) THEN Unwrap(o) ELSE <<>>

\* Option<&PlistValue>::and_then(as_str)
AndThenAsStr(o) == IF IsSome(o) /\ is_string(Unwrap(o)) THEN Some(Unwrap(o).s) ELSE None

\* The isa of a table entry as the loops read it: "" when there is none.
EntryIsa(e) == IF is_object(e.value) THEN UnwrapOrDefault(GetStr(e.value.items, K_isa)) ELSE <<>>

\* The files array of a table entry, empty when there is none.
EntryFiles(e) ==
  IF is_object(e.value) THEN UnwrapOrDefault(GetArray(e.value.items, K_files)) ELSE <<>>

\* The entry is a build phase whose files hold the string id.
IsPhaseWithFile(e, id) ==
  /\ EndsWith(EntryIsa(e), S_BuildPhase)
  /\ \E i \in 1..Len(EntryFiles(e)) : EntryFiles(e)[i] = StringV(id)

\* The (isa, name) of the last of the phases: the HashMap keeps the last insert.
LastPhase(phases) ==
  IF phases = <<>> THEN None
  ELSE Some([isa |-> EntryIsa(phases[Len(phases)]),
             name |-> GetStr(phases[Len(phases)].value.items, K_name)])

\* file_to_phase.get(id)
file_to_phase(objects, id) ==
  LastPhase(SelectSeq(objects, LAMBDA e : IsPhaseWithFile(e, id)))

get_default_name(obj, isa) ==
  OrElse(OrElse(OrElse(GetStr(obj, K_name), GetStr(obj, K_productName)),
                GetStr(obj, K_path)),
         Some(isa))

get_default_build_phase_name(isa) ==
  IF StartsWith(isa, S_PBX) /\ EndsWith(Drop(isa, Len(S_PBX)), S_BuildPhase)
  THEN Some(SubSeq(isa, Len(S_PBX) + 1, Len(isa) - Len(S_BuildPhase)))
  ELSE None

get_build_phase_name(obj, isa) ==
  Unwrap(OrElse(GetStr(obj, K_name), Some(UnwrapOrDefault(get_default_build_phase_name(isa)))))

\* The part of s after its last '/'.
LastSegment(s) ==
  IF Contains(s, 47)
  THEN Drop(s, CHOOSE i \in 1..Len(s) : s[i] = 47 /\ \A j \in (i + 1)..Len(s) : s[j] # 47)
  ELSE s

StripSuffix(s, suffix) == IF EndsWith(s, suffix) THEN Take(s, Len(s) - Len(suffix)) ELSE s

NonEmpty(name) == IF name # <<>> THEN Some(name) ELSE None

\* The repository name of a URL under one prefix, or None.
RepoNameUnder(repo_url, prefix) ==
  IF StartsWith(repo_url, prefix)
  THEN NonEmpty(StripSuffix(LastSegment(Drop(repo_url, Len(prefix))), S_DotGit))
  ELSE None

get_repo_name_from_url(repo_url) ==
  Unwrap(OrElse(OrElse(RepoNameUnder(repo_url, S_HttpsGithub),
                       RepoNameUnder(repo_url, S_HttpGithub)),
                Some(repo_url)))

\* The entry is a PBXContainerItemProxy whose containerPortal is inner_id and
\* that has a remoteInfo string.
IsProxyOf(e, inner_id) ==
  /\ is_object(e.value)
  /\ GetStr(e.value.items, K_isa) = Some(PBXContainerItemProxy)
  /\ GetStr(e.value.items, K_containerPortal) = Some(inner_id)
  /\ IsSome(GetStr(e.value.items, K_remoteInfo))

FirstRemoteInfo(proxies) ==
  IF proxies = <<>> THEN None ELSE GetStr(proxies[1].value.items, K_remoteInfo)

proxy_name(objects, inner_id) ==
  FirstRemoteInfo(SelectSeq(objects, LAMBDA e : IsProxyOf(e, inner_id)))

\* The first element of an optional array, when it is a string.
FirstStr(arr) ==
  IF IsSome(arr) /\ Unwrap(arr) # <<>> /\ is_string(Unwrap(arr)[1])
  THEN Some(Unwrap(arr)[1].s) ELSE None

\* The name of a target's map, productName before name.
TargetName(target) ==
  IF IsSome(target)
  THEN AndThenAsStr(OrElse(MapGet(Unwrap(target), K_productName),
                           MapGet(Unwrap(target), K_name)))
  ELSE None

\* objects.get(id).and_then(as_object) for an optional id
ObjectMapOf(objects, id) ==
  IF IsSome(id) /\ MapHas(objects, Unwrap(id)) /\ is_object(MapVal(objects, Unwrap(id)))
  THEN Some(MapVal(objects, Unwrap(id)).items) ELSE None

first_target_name(objects, obj_map) ==
  TargetName(ObjectMapOf(objects, FirstStr(GetArray(obj_map, K_targets))))

QuotedName(name) == <<34>> \o name \o <<34>>

\* The name the comment of a configuration list gives its owner.
OwnerName(objects, inner_id, obj_map) ==
  OrElse(OrElse(OrElse(OrElse(GetStr(obj_map, K_name), GetStr(obj_map, K_path)),
                       GetStr(obj_map, K_productName)),
                first_target_name(objects, obj_map)),
         proxy_name(objects, inner_id))

ConfigListFor(isa, name) ==
  IF IsSome(name) THEN S_ConfigListFor \o isa \o <<32>> \o QuotedName(Unwrap(name))
  ELSE S_ConfigListFor \o isa

\* The entry is an object whose buildConfigurationList is the string id.
IsOwnerOf(e, id) ==
  is_object(e.value) /\ GetStr(e.value.items, K_buildConfigurationList) = Some(id)

ConfigListComment(objects, owners) ==
  IF owners = <<>> THEN S_ConfigListUnknown
  ELSE ConfigListFor(EntryIsa(owners[1]),
                     OwnerName(objects, owners[1].key, owners[1].value.items))

get_xc_configuration_list_comment(id, objects) ==
  ConfigListComment(objects, SelectSeq(objects, LAMBDA e : IsOwnerOf(e, id)))

\* A comment computation's result: ok is FALSE when the recursion through
\* the fileRef / productRef of PBXBuildFile objects never returns.
COk(c) == [ok |-> TRUE, c |-> c]
CDiverges == [ok |-> FALSE, c |-> None]

\* isa "name", or isa alone
IsaWithName(isa, name) ==
  IF IsSome(name) THEN isa \o <<32>> \o QuotedName(Unwrap(name)) ELSE isa

RepoName(url) == IF IsSome(url) THEN Some(get_repo_name_from_url(Unwrap(url))) ELSE None

\* The build phase name of a build file's comment.
BuildPhaseNameOf(phase) ==
  IF IsNone(phase) THEN S_MissingBuildPhase
  ELSE Unwrap(OrElse(Unwrap(phase).name,
                     Some(UnwrapOrDefault(get_default_build_phase_name(Unwrap(phase).isa)))))

\* "<name> in <phase>" for the comment of the referenced object.
BuildFileComment(inner, build_phase_name) ==
  IF inner.ok
  THEN COk(Some(Unwrap(OrElse(inner.c, Some(S_Null))) \o S_In \o build_phase_name))
  ELSE CDiverges

RECURSIVE get_comment_for_object(_, _, _, _)

\* The comment of the object a build file refers to.
RefComment(ref_id, objects, visited) ==
  IF IsSome(ref_id) /\ MapHas(objects, Unwrap(ref_id))
  THEN get_comment_for_object(Unwrap(ref_id), MapVal(objects, Unwrap(ref_id)), objects, visited)
  ELSE COk(None)

get_pbx_build_file_comment(id, build_file, objects, visited) ==
  BuildFileComment(
    RefComment(AndThenAsStr(OrElse(MapGet(build_file, K_fileRef),
                                   MapGet(build_file, K_productRef))),
               objects, visited \cup {id}),
    BuildPhaseNameOf(file_to_phase(objects, id)))

\* get_comment_for_object for an object map with the string isa.
CommentOfIsa(id, obj, isa, objects, visited) ==
  IF isa = PBXBuildFile THEN get_pbx_build_file_comment(id, obj, objects, visited)
  ELSE IF isa = XCConfigurationList
    THEN COk(Some(get_xc_configuration_list_comment(id, objects)))
  ELSE IF isa = XCRemoteSwiftPackageReference
    THEN COk(Some(IsaWithName(isa, RepoName(GetStr(obj, K_repositoryURL)))))
  ELSE IF isa = XCLocalSwiftPackageReference
    THEN COk(Some(IsaWithName(isa, GetStr(obj, K_relativePath))))
  ELSE IF isa = PBXProject THEN COk(Some(S_ProjectObject))
  ELSE IF EndsWith(isa, S_BuildPhase) THEN COk(Some(get_build_phase_name(obj, isa)))
  ELSE IF isa = PBXGroup /\ IsNone(GetStr(obj, K_name)) /\ IsNone(GetStr(obj, K_path))
    THEN COk(Some(<<>>))
  ELSE COk(get_default_name(obj, isa))

\* visited: the ids of the calls on the stack (the cache holds none of them,
\* as an id is cached only when its call returns).
get_comment_for_object(id, object, objects, visited) ==
  IF ~is_object(object) THEN COk(None)
  ELSE IF IsNone(GetStr(object.items, K_isa)) THEN COk(None)
  ELSE IF id \in visited THEN CDiverges
  ELSE CommentOfIsa(id, object.items, Unwrap(GetStr(object.items, K_isa)), objects, visited)

\* The objects table of a document, or the empty table when there is none.
objects_of(project) ==
  IF is_object(project) THEN UnwrapOrDefault(GetObject(project.items, K_objects)) ELSE <<>>

RECURSIVE CommentEntries(_, _)

\* The cache after the comment r of entry i, and of the entries after it.
PushComment(key, r, rest) ==
  IF ~r.ok \/ ~rest.ok THEN [ok |-> FALSE, map |-> <<>>]
  ELSE [ok |-> TRUE,
        map |-> (IF IsSome(r.c) THEN <<Entry(key, Unwrap(r.c))>> ELSE <<>>) \o rest.map]

\* The second loop of create_reference_list from entry i on.
CommentEntries(objects, i) ==
  IF i > Len(objects) THEN [ok |-> TRUE, map |-> <<>>]
  ELSE PushComment(objects[i].key,
                   get_comment_for_object(objects[i].key, objects[i].value, objects, {}),
                   CommentEntries(objects, i + 1))

\* create_reference_list: the map of id to comment; ok is FALSE when a
\* comment computation never returns.
create_reference_list(project) == CommentEntries(objects_of(project), 1)

\* ------------------------------------------------------------------------
\* Writer (src/writer/serializer.rs)
\* ------------------------------------------------------------------------

S_Assign == Cs(<<" ","="," ">>)
S_SemiSpace == Cs(<<";"," ">>)
S_CommentOpen == Cs(<<" ","/","*"," ">>)
S_CommentClose == Cs(<<" ","*","/">>)
S_BeginSection == Cs(<<"/","*"," ","B","e","g","i","n"," ">>)
S_EndSection == Cs(<<"/","*"," ","E","n","d"," ">>)
S_SectionTail == Cs(<<" ","s","e","c","t","i","o","n"," ","*","/">>)
S_DotZero == Cs(<<".","0">>)

\* write_indent: the tab repeated indent times
write_indent(indent) == [i \in 1..indent |-> 9]

\* write_line without the newline it pushes last
write_line_unterminated(indent, s) == write_indent(indent) \o s

write_line(indent, s) == write_indent(indent) \o s \o <<10>>

write_assign_line(indent, key, value) ==
  write_indent(indent) \o key \o S_Assign \o value \o <<59, 10>>

\* format!("{}", f) of a Float
FloatDisplay(v) ==
  (IF v.neg THEN <<45>> ELSE <<>>) \o v.s \o (IF v.f = <<>> THEN <<>> ELSE <<46>> \o v.f)

\* format!("{}.0", *f as i64) of a Float without fraction
FloatAsI64DotZero(v) ==
  (IF v.neg /\ v.s # <<48>> THEN <<45>> ELSE <<>>) \o v.s \o S_DotZero

\* comments.get(id) is a comment that is not empty
HasComment(comments, id) == MapHas(comments, id) /\ MapVal(comments, id) # <<>>

\* id /* comment */
WithComment(comments, id) ==
  id \o S_CommentOpen \o MapVal(comments, id) \o S_CommentClose

\* write_format_id: the text it appends for id
write_format_id(comments, id) ==
  IF HasComment(comments, id) THEN WithComment(comments, id) ELSE write_ensure_quotes_to(id)

format_id_string(comments, id) ==
  IF HasComment(comments, id) THEN WithComment(comments, id) ELSE ensure_quotes(id)

key_has_float_value(key) ==
  /\ \A i \in 1..Len(key) : ~IsLower(key[i])
  /\ \/ EndsWith(key, S_SWIFT_VERSION)
     \/ EndsWith(key, S_MARKETING_VERSION)
     \/ EndsWith(key, S_DEPLOYMENT_TARGET)

write_shebang == <<47, 47, 32>> \o S_Shebang \o <<10>>

\* The strings of a set in byte order (BTreeMap iteration, sort by id).
RECURSIVE SortStrings(_)
SortStrings(S) ==
  IF S = {} THEN <<>>
  ELSE <<CHOOSE x \in S : \A y \in S : ~StrLess(y, x)>>
       \o SortStrings(S \ {CHOOSE x \in S : \A y \in S : ~StrLess(y, x)})

\* The isa under which write_pbx_objects files an object map.
SectionIsa(obj_map) == Unwrap(OrElse(GetStr(obj_map, K_isa), Some(S_Unknown)))

\* The text of an item of an inline array.
InlineArrayItem(item) ==
  IF item.t \in {"String", "Integer"}
  THEN write_ensure_quotes_to(item.s) \o <<44, 32>> ELSE <<>>

\* The concatenation of the texts of a sequence, in order.
RECURSIVE Flatten(_)
Flatten(texts) == IF texts = <<>> THEN <<>> ELSE Head(texts) \o Flatten(Tail(texts))

\* The concatenation of F(x) for the elements x of a sequence, in order.
ConcatMap(xs, F(_)) == Flatten([i \in 1..Len(xs) |-> F(xs[i])])

\* What the Integer and Float arms of write_object write for the value.
NumberText(key, value) ==
  IF value.t = "Integer"
  THEN (IF key_has_float_value(key) THEN value.s \o S_DotZero ELSE value.s)
  ELSE (IF key_has_float_value(key) /\ value.f = <<>>
        THEN FloatAsI64DotZero(value) ELSE FloatDisplay(value))

\* What write_object and write_array write for a value that is no container.
\* plain: the value is written by ensure_quotes, without a comment.
ScalarText(comments, value, plain) ==
  CASE value.t = "Data" -> format_data(value.s)
    [] value.t = "String" /\ plain -> ensure_quotes(value.s)
    [] value.t = "String" /\ ~plain -> write_format_id(comments, value.s)
    [] value.t = "Integer" -> write_format_id(comments, value.s)
    [] value.t = "Float" -> write_format_id(comments, FloatDisplay(value))
    [] OTHER -> <<>>

RECURSIVE write_object(_, _, _, _)
RECURSIVE write_array(_, _, _, _)
RECURSIVE write_pbx_objects(_, _, _)
RECURSIVE write_inline_recursive(_, _, _)

\* The Object arm of write_object.
WriteObjectEntry(comments, key, inner, is_base, indent) ==
  IF ~is_base /\ inner = <<>>
  THEN write_indent(indent) \o write_ensure_quotes_to(key) \o S_Assign \o <<123, 125, 59, 10>>
  ELSE write_indent(indent) \o write_ensure_quotes_to(key) \o S_Assign \o <<123, 10>>
       \o (IF is_base /\ key = K_objects
           THEN write_pbx_objects(comments, inner, indent + 1)
           ELSE write_object(comments, inner, is_base, indent + 1))
       \o write_line(indent, <<125, 59>>)

\* One iteration of the loop of write_object.
WriteEntry(comments, key, value, is_base, indent) ==
  CASE value.t = "Array" -> write_array(comments, key, value.items, indent)
    [] value.t = "Object" -> WriteObjectEntry(comments, key, value.items, is_base, indent)
    [] value.t \in {"Integer", "Float"} ->
         write_assign_line(indent, ensure_quotes(key), ensure_quotes(NumberText(key, value)))
    [] OTHER ->
         write_assign_line(indent, ensure_quotes(key),
           ScalarText(comments, value, key = K_remoteGlobalIDString \/ key = K_TestTargetID))

write_object(comments, object, is_base, indent) ==
  ConcatMap(object, LAMBDA e : WriteEntry(comments, e.key, e.value, is_base, indent))

\* One iteration of the loop of write_array.
WriteItem(comments, item, indent) ==
  CASE item.t = "Object" ->
         write_line(indent, <<123>>)
         \o write_object(comments, item.items, FALSE, indent + 1)
         \o write_line(indent, <<125, 44>>)
    [] item.t = "Array" -> <<>>
    [] OTHER -> write_indent(indent) \o ScalarText(comments, item, FALSE) \o <<44, 10>>

write_array(comments, key, items, indent) ==
  write_indent(indent) \o write_ensure_quotes_to(key) \o S_Assign \o <<40, 10>>
  \o ConcatMap(items, LAMBDA item : WriteItem(comments, item, indent + 1))
  \o write_line(indent, <<41, 59>>)

\* What write_inline_recursive writes after `key = ` for a value that is no
\* Object.
InlineValueText(comments, k, v) ==
  CASE v.t = "Data" -> format_data(v.s)
    [] v.t = "Array" -> <<40>> \o ConcatMap(v.items, InlineArrayItem) \o <<41>>
    [] v.t = "String" /\ (k = K_remoteGlobalIDString \/ k = K_TestTargetID) ->
         write_ensure_quotes_to(v.s)
    [] v.t = "String" -> format_id_string(comments, v.s)
    [] v.t = "Integer" -> write_ensure_quotes_to(v.s)
    [] v.t = "Float" -> write_ensure_quotes_to(FloatDisplay(v))

\* One iteration of the loop of write_inline_recursive.
WriteInlineEntry(comments, k, v) ==
  IF v.t = "Object" THEN write_inline_recursive(comments, k, v.items)
  ELSE write_ensure_quotes_to(k) \o S_Assign \o InlineValueText(comments, k, v) \o S_SemiSpace

write_inline_recursive(comments, key, value) ==
  format_id_string(comments, key) \o S_Assign \o <<123>>
  \o ConcatMap(value, LAMBDA e : WriteInlineEntry(comments, e.key, e.value))
  \o <<125>> \o S_SemiSpace

\* The buffer ends with the space that write_inline_recursive wrote last,
\* which is popped.
PopSpace(text) == IF text[Len(text)] = 32 THEN Take(text, Len(text) - 1) ELSE text

write_object_inline(comments, key, value, indent) ==
  PopSpace(write_indent(indent) \o write_inline_recursive(comments, key, value)) \o <<10>>

\* is_pbx_build_file(isa) || is_pbx_file_reference(isa)
IsInlineIsa(isa) == isa = Some(PBXBuildFile) \/ isa = Some(PBXFileReference)

write_object_inclusive(comments, key, value, indent) ==
  IF IsInlineIsa(GetStr(value, K_isa))
  THEN write_object_inline(comments, key, value, indent)
  ELSE write_indent(indent) \o write_format_id(comments, key) \o S_Assign \o <<123, 10>>
       \o write_object(comments, value, FALSE, indent + 1)
       \o write_line(indent, <<125, 59>>)

\* The ids of the objects filed under isa.
SectionIds(objects, isa) ==
  { objects[i].key : i \in { j \in 1..Len(objects) :
      is_object(objects[j].value) /\ SectionIsa(objects[j].value.items) = isa } }

\* One section of write_pbx_objects.
WriteSection(comments, objects, isa, indent) ==
  <<10>> \o S_BeginSection \o isa \o S_SectionTail \o <<10>>
  \o ConcatMap(SortStrings(SectionIds(objects, isa)),
               LAMBDA id : write_object_inclusive(comments, id, MapVal(objects, id).items, indent))
  \o S_EndSection \o isa \o S_SectionTail \o <<10>>

\* The isas of by_isa.
SectionIsas(objects) ==
  { SectionIsa(objects[i].value.items) : i \in { j \in 1..Len(objects) : is_object(objects[j].value) } }

write_pbx_objects(comments, objects, indent) ==
  ConcatMap(SortStrings(SectionIsas(objects)),
            LAMBDA isa : WriteSection(comments, objects, isa, indent))

write_project(project, comments) ==
  write_line(0, <<123>>)
  \o (IF is_object(project) THEN write_object(comments, project.items, TRUE, 1) ELSE <<>>)
  \o write_line(0, <<125>>)

\* Writer::with_options and get_results, comments being the map that
\* create_reference_list returned.
WriterResults(project, comments) == write_shebang \o write_project(project, comments)

\* build: the text, when create_reference_list returns.
build(project) == WriterResults(project, create_reference_list(project).map)

\* ------------------------------------------------------------------------
\* PbxObject (src/objects/mod.rs)
\* ------------------------------------------------------------------------

K_mainGroup == Cs(<<"m","a","i","n","G","r","o","u","p">>)
K_productRefGroup == Cs(<<"p","r","o","d","u","c","t","R","e","f","G","r","o","u","p">>)
K_packageReferences == Cs(<<"p","a","c","k","a","g","e","R","e","f","e","r","e","n","c","e","s">>)
K_dependencies == Cs(<<"d","e","p","e","n","d","e","n","c","i","e","s">>)
K_buildPhases == Cs(<<"b","u","i","l","d","P","h","a","s","e","s">>)
K_buildRules == Cs(<<"b","u","i","l","d","R","u","l","e","s">>)
K_productReference == Cs(<<"p","r","o","d","u","c","t","R","e","f","e","r","e","n","c","e">>)
K_packageProductDependencies == Cs(<<"p","a","c","k","a","g","e","P","r","o","d","u","c","t","D","e","p","e","n","d","e","n","c","i","e","s">>)
K_fileSystemSynchronizedGroups == Cs(<<"f","i","l","e","S","y","s","t","e","m","S","y","n","c","h","r","o","n","i","z","e","d","G","r","o","u","p","s">>)
K_children == Cs(<<"c","h","i","l","d","r","e","n">>)
K_buildConfigurations == Cs(<<"b","u","i","l","d","C","o","n","f","i","g","u","r","a","t","i","o","n","s">>)
K_baseConfigurationReference == Cs(<<"b","a","s","e","C","o","n","f","i","g","u","r","a","t","i","o","n","R","e","f","e","r","e","n","c","e">>)
K_target == Cs(<<"t","a","r","g","e","t">>)
K_targetProxy == Cs(<<"t","a","r","g","e","t","P","r","o","x","y">>)
K_remoteRef == Cs(<<"r","e","m","o","t","e","R","e","f">>)
K_package == Cs(<<"p","a","c","k","a","g","e">>)
K_exceptions == Cs(<<"e","x","c","e","p","t","i","o","n","s">>)
K_archiveVersion == Cs(<<"a","r","c","h","i","v","e","V","e","r","s","i","o","n">>)
K_objectVersion == Cs(<<"o","b","j","e","c","t","V","e","r","s","i","o","n">>)
K_classes == Cs(<<"c","l","a","s","s","e","s">>)
K_rootObject == Cs(<<"r","o","o","t","O","b","j","e","c","t">>)
PBXNativeTarget == Cs(<<"P","B","X","N","a","t","i","v","e","T","a","r","g","e","t">>)
PBXAggregateTarget == Cs(<<"P","B","X","A","g","g","r","e","g","a","t","e","T","a","r","g","e","t">>)
PBXLegacyTarget == Cs(<<"P","B","X","L","e","g","a","c","y","T","a","r","g","e","t">>)
PBXVariantGroup == Cs(<<"P","B","X","V","a","r","i","a","n","t","G","r","o","u","p">>)
XCVersionGroup == Cs(<<"X","C","V","e","r","s","i","o","n","G","r","o","u","p">>)
XCBuildConfiguration == Cs(<<"X","C","B","u","i","l","d","C","o","n","f","i","g","u","r","a","t","i","o","n">>)
PBXTargetDependency == Cs(<<"P","B","X","T","a","r","g","e","t","D","e","p","e","n","d","e","n","c","y">>)
PBXReferenceProxy == Cs(<<"P","B","X","R","e","f","e","r","e","n","c","e","P","r","o","x","y">>)
XCSwiftPackageProductDependency == Cs(<<"X","C","S","w","i","f","t","P","a","c","k","a","g","e","P","r","o","d","u","c","t","D","e","p","e","n","d","e">>) \o Cs(<<"n","c","y">>)
PBXFileSystemSynchronizedRootGroup == Cs(<<"P","B","X","F","i","l","e","S","y","s","t","e","m","S","y","n","c","h","r","o","n","i","z","e","d","R","o","o">>) \o Cs(<<"t","G","r","o","u","p">>)

\* PbxObject::from_plist
PbxObject_from_plist(uuid, props) ==
  [uuid |-> uuid,
   isa |-> Unwrap(OrElse(GetStr(props, K_isa), Some(S_Unknown))),
   props |-> props]

\* PbxObject::reference_keys, by the isa field of the object
reference_keys(isa) ==
  CASE isa = PBXProject ->
         <<K_buildConfigurationList, K_mainGroup, K_productRefGroup, K_targets,
           K_packageReferences>>
    [] isa \in {PBXNativeTarget, PBXAggregateTarget, PBXLegacyTarget} ->
         <<K_buildConfigurationList, K_dependencies, K_buildPhases, K_buildRules,
           K_productReference, K_packageProductDependencies,
           K_fileSystemSynchronizedGroups>>
    [] isa \in {PBXGroup, PBXVariantGroup, XCVersionGroup} -> <<K_children>>
    [] isa = XCConfigurationList -> <<K_buildConfigurations>>
    [] isa = XCBuildConfiguration -> <<K_baseConfigurationReference>>
    [] isa = PBXBuildFile -> <<K_fileRef, K_productRef>>
    [] isa = PBXTargetDependency -> <<K_target, K_targetProxy>>
    [] isa = PBXContainerItemProxy -> <<K_containerPortal>>
    [] isa = PBXReferenceProxy -> <<K_remoteRef>>
    [] isa = XCSwiftPackageProductDependency -> <<K_package>>
    [] isa = PBXFileSystemSynchronizedRootGroup -> <<K_exceptions>>
    [] OTHER -> IF EndsWith(isa, S_BuildPhase) THEN <<K_files>> ELSE <<>>

\* key is one of reference_keys(isa)
IsReferenceKey(isa, key) ==
  \E j \in 1..Len(reference_keys(isa)) : reference_keys(isa)[j] = key

\* item.as_str() == Some(uuid)
IsStr(item, uuid) == item.t = "String" /\ item.s = uuid

\* The match of is_referencing on one value.
HoldsReference(value, uuid) ==
  \/ IsStr(value, uuid)
  \/ value.t = "Array" /\ \E i \in 1..Len(value.items) : IsStr(value.items[i], uuid)

is_referencing(obj, uuid) ==
  \E j \in 1..Len(reference_keys(obj.isa)) :
    /\ MapHas(obj.props, reference_keys(obj.isa)[j])
    /\ HoldsReference(MapVal(obj.props, reference_keys(obj.isa)[j]), uuid)

\* looks_like_uuid: 24 characters, every one a hexadecimal digit
looks_like_uuid(s) == Len(s) = 24 /\ \A i \in 1..Len(s) : IsHexDigit(s[i])

\* The strings that collect_references takes from one value.
ReferencesOfValue(value) ==
  CASE value.t = "String" -> IF looks_like_uuid(value.s) THEN {value.s} ELSE {}
    [] value.t = "Array" ->
         { value.items[i].s :
             i \in { j \in 1..Len(value.items) :
                       value.items[j].t = "String" /\ looks_like_uuid(value.items[j].s) } }
    [] OTHER -> {}

collect_references(obj) ==
  UNION { ReferencesOfValue(MapVal(obj.props, reference_keys(obj.isa)[j])) :
            j \in { k \in 1..Len(reference_keys(obj.isa)) :
                      MapHas(obj.props, reference_keys(obj.isa)[k]) } }

\* get_reference_uuids, as the set of the uuids of the vector
get_reference_uuids(obj) == collect_references(obj)

\* The match that blanks the scalar and leaves the arrays as they are.
UnreferenceScalar(value, uuid) ==
  IF IsStr(value, uuid) THEN StringV(<<>>) ELSE value

\* The match of remove_reference on one value.
Unreference(value, uuid) ==
  CASE IsStr(value, uuid) -> StringV(<<>>)
    [] value.t = "Array" ->
         [value EXCEPT !.items = SelectSeq(value.items, LAMBDA item : ~IsStr(item, uuid))]
    [] OTHER -> value

\* remove_reference: every reference key is visited once and changes only
\* its own value, so the loop is a map over the properties.
remove_reference(obj, uuid) ==
  [obj EXCEPT !.props =
     [i \in 1..Len(obj.props) |->
        IF IsReferenceKey(obj.isa, obj.props[i].key)
        THEN Entry(obj.props[i].key, Unreference(obj.props[i].value, uuid))
        ELSE obj.props[i]]]

\* ------------------------------------------------------------------------
\* XcodeProject (src/project/xcode_project.rs, src/project/uuid.rs)
\* ------------------------------------------------------------------------

\* The objects table is an IndexMap of uuid to PbxObject: a sequence of
\* entries (key, value), value a record (uuid, isa, props).

NoProject ==
  [archive_version |-> <<>>, object_version |-> <<>>, classes |-> <<>>,
   root_object_uuid |-> <<>>, objects |-> <<>>]

LoadErr(message) == [ok |-> FALSE, err |-> message, project |-> NoProject]
LoadOk(p) == [ok |-> TRUE, err |-> "", project |-> p]

\* PbxObject::from_plist applied to each of the entries.
InflateEntries(entries) ==
  [i \in 1..Len(entries) |->
     Entry(entries[i].key, PbxObject_from_plist(entries[i].key, entries[i].value.items))]

\* The loop that inflates the entries of `objects` that are Objects.
InflateObjects(objects_map) ==
  InflateEntries(SelectSeq(objects_map, LAMBDA e : is_object(e.value)))

\* from_plist_value after the root validation
LoadedProject(root, root_object_uuid, objects) ==
  LoadOk([archive_version |-> Unwrap(OrElse(GetInt(root, K_archiveVersion), Some(<<49>>))),
          object_version |-> Unwrap(OrElse(GetInt(root, K_objectVersion), Some(<<52, 54>>))),
          classes |-> Unwrap(OrElse(GetObject(root, K_classes), Some(<<>>))),
          root_object_uuid |-> root_object_uuid,
          objects |-> objects])

\* from_plist_value without the validation of the root object
from_plist_value_unvalidated(plist) ==
  IF ~is_object(plist) THEN LoadErr("Root must be an object")
  ELSE IF IsNone(GetStr(plist.items, K_rootObject)) THEN LoadErr("rootObject is required")
  ELSE IF IsNone(GetObject(plist.items, K_objects)) THEN LoadErr("objects is required")
  ELSE LoadedProject(plist.items, Unwrap(GetStr(plist.items, K_rootObject)),
                     InflateObjects(Unwrap(GetObject(plist.items, K_objects))))

\* The validation of the root object and the result of from_plist_value.
ValidateRoot(root, root_object_uuid, objects) ==
  IF ~MapHas(objects, root_object_uuid) THEN LoadErr("Root object not found in objects")
  ELSE IF MapVal(objects, root_object_uuid).isa # PBXProject
       THEN LoadErr("Root object is not a PBXProject")
  ELSE LoadedProject(root, root_object_uuid, objects)

from_plist_value(plist) ==
  IF ~is_object(plist) THEN LoadErr("Root must be an object")
  ELSE IF IsNone(GetStr(plist.items, K_rootObject)) THEN LoadErr("rootObject is required")
  ELSE IF IsNone(GetObject(plist.items, K_objects)) THEN LoadErr("objects is required")
  ELSE ValidateRoot(plist.items, Unwrap(GetStr(plist.items, K_rootObject)),
                    InflateObjects(Unwrap(GetObject(plist.items, K_objects))))

\* XcodeProject::get_object
get_object(objects, uuid) == MapGet(objects, uuid)

\* XcodeProject::root_object
root_object(project) == MapGet(project.objects, project.root_object_uuid)

\* The values of a table, in order.
Values(objects) == [i \in 1..Len(objects) |-> objects[i].value]

get_referrers(objects, uuid) ==
  Values(SelectSeq(objects, LAMBDA e : is_referencing(e.value, uuid)))

\* delete_object: the table afterwards (shift_remove)
delete_object(objects, uuid) == MapRemove(objects, uuid)

\* The loop of remove_object over the objects that are left.
RemoveReferences(objects, uuid) ==
  [i \in 1..Len(objects) |-> Entry(objects[i].key, remove_reference(objects[i].value, uuid))]

\* The removal that leaves the other objects as they are.
remove_entry_only(objects, uuid) == MapRemove(objects, uuid)

remove_object(objects, uuid) == RemoveReferences(delete_object(objects, uuid), uuid)

OrphanedReference(uuid, isa, key, ref_uuid) ==
  [referrer_uuid |-> uuid, referrer_isa |-> isa, property |-> key, orphan_uuid |-> ref_uuid]

\* item is a string that is not empty and not a key of the table
IsOrphanItem(objects, item) ==
  item.t = "String" /\ item.s # <<>> /\ ~MapHas(objects, item.s)

\* The records pushed for the orphan items of an array, in order.
OrphanRecords(uuid, isa, key, orphan_items) ==
  [i \in 1..Len(orphan_items) |-> OrphanedReference(uuid, isa, key, orphan_items[i].s)]

\* The match of find_orphaned_references on one value.
OrphansOfValue(objects, uuid, isa, key, value) ==
  CASE value.t = "String" ->
         IF IsOrphanItem(objects, value)
         THEN <<OrphanedReference(uuid, isa, key, value.s)>> ELSE <<>>
    [] value.t = "Array" ->
         OrphanRecords(uuid, isa, key,
                       SelectSeq(value.items, LAMBDA item : IsOrphanItem(objects, item)))
    [] OTHER -> <<>>

\* The inner loop of find_orphaned_references, for one reference key.
OrphansOfKey(objects, uuid, obj, key) ==
  IF MapHas(obj.props, key)
  THEN OrphansOfValue(objects, uuid, obj.isa, key, MapVal(obj.props, key))
  ELSE <<>>

\* find_orphaned_references that reports the strings of arrays without
\* looking them up in the table.
find_orphaned_references_unchecked(objects) ==
  ConcatMap(objects, LAMBDA e :
    ConcatMap(reference_keys(e.value.isa), LAMBDA key :
      IF MapHas(e.value.props, key) /\ MapVal(e.value.props, key).t = "Array"
      THEN OrphanRecords(e.key, e.value.isa, key,
             SelectSeq(MapVal(e.value.props, key).items, LAMBDA item : item.t = "String"))
      ELSE OrphansOfKey(objects, e.key, e.value, key)))

find_orphaned_references(objects) ==
  ConcatMap(objects, LAMBDA e :
    ConcatMap(reference_keys(e.value.isa), LAMBDA key :
      OrphansOfKey(objects, e.key, e.value, key)))

\* ---- serde_json::to_string of the properties (the seed of the uuid) ----

\* The bytes that serde_json escapes in a string.
JsonNeedsEscape(b) == b < 32 \/ b = 34 \/ b = 92

\* The escape of one byte.
JsonEscapeByte(b) ==
  CASE b = 34 -> <<92, 34>>
    [] b = 92 -> <<92, 92>>
    [] b = 8 -> <<92, 98>>
    [] b = 12 -> <<92, 102>>
    [] b = 10 -> <<92, 110>>
    [] b = 13 -> <<92, 114>>
    [] b = 9 -> <<92, 116>>
    [] OTHER -> <<92, 117, 48, 48, LowerHexDigit(b \div 16), LowerHexDigit(b % 16)>>

\* The text with the byte at position i escaped.
JsonEscapeOne(str, i) == Take(str, i - 1) \o JsonEscapeByte(str[i]) \o Drop(str, i)

MaxOf(S) == CHOOSE i \in S : \A j \in S : j <= i

\* The text with the bytes at the given positions escaped, last first.
RECURSIVE JsonEscapeAt(_, _)
JsonEscapeAt(str, positions) ==
  IF positions = {} THEN str
  ELSE JsonEscapeAt(JsonEscapeOne(str, MaxOf(positions)), positions \ {MaxOf(positions)})

JsonString(str) ==
  <<34>> \o JsonEscapeAt(str, {i \in 1..Len(str) : JsonNeedsEscape(str[i])}) \o <<34>>

\* The texts joined by commas.
RECURSIVE JoinComma(_)
JoinComma(texts) ==
  IF texts = <<>> THEN <<>>
  ELSE IF Len(texts) = 1 THEN texts[1]
  ELSE texts[1] \o <<44>> \o JoinComma(Tail(texts))

\* serialize_f64 of a finite float of moderate size: the shortest decimal,
\* with `.0` when there is no fraction.
JsonFloat(v) == IF v.f = <<>> THEN FloatDisplay(v) \o S_DotZero ELSE FloatDisplay(v)

S_JsonBufferOpen == Cs(<<"{","DQ","t","y","p","e","DQ",":","DQ","B","u","f","f","e","r","DQ",",","DQ","d","a","t","a","DQ",":","[">>)

\* Serialize for PlistValue
RECURSIVE JsonValue(_)
JsonValue(v) ==
  CASE v.t = "String" -> JsonString(v.s)
    [] v.t = "Integer" -> v.s
    [] v.t = "Float" -> JsonFloat(v)
    [] v.t = "Data" ->
         S_JsonBufferOpen \o JoinComma([i \in 1..Len(v.s) |-> NatToString(v.s[i])]) \o <<93, 125>>
    [] v.t = "Array" ->
         <<91>> \o JoinComma([i \in 1..Len(v.items) |-> JsonValue(v.items[i])]) \o <<93>>
    [] v.t = "Object" ->
         <<123>>
         \o JoinComma([i \in 1..Len(v.items) |->
                         JsonString(v.items[i].key) \o <<58>> \o JsonValue(v.items[i].value)])
         \o <<125>>

\* serde_json::to_string(&props)
to_json_string(props) == JsonValue(ObjectV(props))

\* ---- uuid.rs ----

\* The sum of the bytes str[lo..hi].
RECURSIVE ByteSum(_, _, _)
ByteSum(str, lo, hi) ==
  IF lo > hi THEN 0
  ELSE IF lo = hi THEN str[lo]
  ELSE ByteSum(str, lo, (lo + hi) \div 2) + ByteSum(str, (lo + hi) \div 2 + 1, hi)

\* The MD5 digest stands for a function of the seed into a finite space:
\* here the sum of the bytes modulo a prime, so that equal seeds give equal
\* digests, distinct seeds can collide, and appending a space changes the
\* digest.
Md5(seed) == ByteSum(seed, 1, Len(seed)) % 251

\* The first 20 characters of the digest in upper-case hexadecimal.
Hex20(digest) ==
  [i \in 1..18 |-> 48] \o <<UpperHexDigit(digest \div 16), UpperHexDigit(digest % 16)>>

\* make_uuid: XX + 20 hex characters + XX
make_uuid(seed) == <<88, 88>> \o Hex20(Md5(seed)) \o <<88, 88>>

\* generate_uuid without the retry loop
generate_uuid_once(seed, existing) == make_uuid(seed)

\* One turn of the loop of generate_uuid, uuid being make_uuid(current_seed).
RECURSIVE generate_uuid(_, _)
RetryWhileTaken(uuid, current_seed, existing) ==
  IF uuid \notin existing THEN uuid
  ELSE generate_uuid(current_seed \o <<32>>, existing)

generate_uuid(seed, existing) == RetryWhileTaken(make_uuid(seed), seed, existing)

get_unique_id(objects, seed) == generate_uuid(seed, MapKeys(objects))

\* What create_object returns and the table it leaves.
Created(uuid, objects, props) ==
  [uuid |-> uuid, objects |-> MapInsert(objects, uuid, PbxObject_from_plist(uuid, props))]

create_object(objects, props) ==
  Created(get_unique_id(objects, to_json_string(props)), objects, props)

K_defaultConfigurationName == Cs(<<"d","e","f","a","u","l","t","C","o","n","f","i","g","u","r","a","t","i","o","n","N","a","m","e">>)
K_buildSettings == Cs(<<"b","u","i","l","d","S","e","t","t","i","n","g","s">>)

\* ---- results of the facade operations ----

\* What a call returns: None, Some(uuid), true, false or nothing.
RetNone == [kind |-> "None", s |-> <<>>]
RetSome(uuid) == [kind |-> "Some", s |-> uuid]
RetBool(b) == [kind |-> IF b THEN "true" ELSE "false", s |-> <<>>]
RetUnit == [kind |-> "unit", s |-> <<>>]

\* A call's result and the objects table it leaves.
Outcome(ret, objects) == [ret |-> ret, objects |-> objects]

\* The table with the properties of the object uuid replaced.
WithProps(objects, uuid, props) ==
  [i \in 1..Len(objects) |->
     IF objects[i].key = uuid
     THEN Entry(uuid, [objects[i].value EXCEPT !.props = props])
     ELSE objects[i]]

\* if let Some(obj) = get_object_mut(owner) { if let Some(Array(a)) =
\* obj.props.get_mut(key) { a.push(String(uuid)) } }
PushRef(objects, owner, key, uuid) ==
  IF MapHas(objects, owner) /\ IsSome(GetArray(MapVal(objects, owner).props, key))
  THEN WithProps(objects, owner,
         MapInsert(MapVal(objects, owner).props, key,
                   ArrayV(Append(Unwrap(GetArray(MapVal(objects, owner).props, key)),
                                 StringV(uuid)))))
  ELSE objects

\* The object just created is returned and linked into its owner.
Linked(created, owner, key) ==
  Outcome(RetSome(created.uuid), PushRef(created.objects, owner, key, created.uuid))

\* ---- build settings ----

\* config_val names a configuration of the table whose name is default_name
IsNamedConfiguration(objects, config_val, default_name) ==
  /\ config_val.t = "String"
  /\ MapHas(objects, config_val.s)
  /\ GetStr(MapVal(objects, config_val.s).props, K_name) = Some(default_name)

\* configs.first().and_then(as_str).and_then(get_object)
FirstConfiguration(objects, configs) ==
  IF configs # <<>> /\ configs[1].t = "String" THEN get_object(objects, configs[1].s) ELSE None

\* The loop of get_default_configuration and its fallback.
DefaultAmong(objects, configs, default_name) ==
  IF \E i \in 1..Len(configs) : IsNamedConfiguration(objects, configs[i], default_name)
  THEN get_object(objects,
         configs[CHOOSE i \in 1..Len(configs) :
                   /\ IsNamedConfiguration(objects, configs[i], default_name)
                   /\ \A j \in 1..(i - 1) :
                        ~IsNamedConfiguration(objects, configs[j], default_name)].s)
  ELSE FirstConfiguration(objects, configs)

\* get_default_configuration once the list is found.
DefaultOfList(objects, list_props) ==
  IF IsNone(GetStr(list_props, K_defaultConfigurationName)) THEN None
  ELSE IF IsNone(GetArray(list_props, K_buildConfigurations)) THEN None
  ELSE DefaultAmong(objects, Unwrap(GetArray(list_props, K_buildConfigurations)),
                    Unwrap(GetStr(list_props, K_defaultConfigurationName)))

get_default_configuration(objects, config_list_uuid) ==
  IF ~MapHas(objects, config_list_uuid) THEN None
  ELSE DefaultOfList(objects, MapVal(objects, config_list_uuid).props)

\* The last two lines of get_build_setting.
SettingOf(config, key) ==
  IF IsNone(config) THEN None
  ELSE IF IsNone(GetObject(Unwrap(config).props, K_buildSettings)) THEN None
  ELSE MapGet(Unwrap(GetObject(Unwrap(config).props, K_buildSettings)), key)

get_build_setting(objects, target_uuid, key) ==
  IF ~MapHas(objects, target_uuid) THEN None
  ELSE IF IsNone(GetStr(MapVal(objects, target_uuid).props, K_buildConfigurationList)) THEN None
  ELSE SettingOf(get_default_configuration(objects,
                   Unwrap(GetStr(MapVal(objects, target_uuid).props, K_buildConfigurationList))),
                 key)

\* The strings among the items of an array.
StringsOf(items) == { items[i].s : i \in { j \in 1..Len(items) : items[j].t = "String" } }

\* config_uuids: the strings of buildConfigurations, none when it is no array
ConfigUuids(list_props) ==
  StringsOf(Unwrap(OrElse(GetArray(list_props, K_buildConfigurations), Some(<<>>))))

\* The loop of set_build_setting and remove_build_setting: Change is applied
\* to the buildSettings of every listed configuration that has them.  Each
\* turn touches one configuration, and a second turn on the same one changes
\* nothing more, so the loop is a map over the table.
ChangeSettings(objects, config_uuids, Change(_)) ==
  [i \in 1..Len(objects) |->
     IF objects[i].key \in config_uuids
        /\ IsSome(GetObject(objects[i].value.props, K_buildSettings))
     THEN Entry(objects[i].key,
            [objects[i].value EXCEPT !.props =
               MapInsert(objects[i].value.props, K_buildSettings,
                 ObjectV(Change(Unwrap(GetObject(objects[i].value.props, K_buildSettings)))))])
     ELSE objects[i]]

\* The configuration list of a target, as set_build_setting looks it up.
ConfigListOf(objects, target_uuid) ==
  IF ~MapHas(objects, target_uuid) THEN None
  ELSE IF IsNone(GetStr(MapVal(objects, target_uuid).props, K_buildConfigurationList)) THEN None
  ELSE get_object(objects,
         Unwrap(GetStr(MapVal(objects, target_uuid).props, K_buildConfigurationList)))

\* set_build_setting and remove_build_setting once the list is looked up.
ChangeInList(objects, config_list, Change(_)) ==
  IF IsNone(config_list) THEN Outcome(RetBool(FALSE), objects)
  ELSE Outcome(RetBool(TRUE),
               ChangeSettings(objects, ConfigUuids(Unwrap(config_list).props), Change))

set_build_setting(objects, target_uuid, key, value) ==
  ChangeInList(objects, ConfigListOf(objects, target_uuid),
               LAMBDA settings : MapInsert(settings, key, value))

remove_build_setting(objects, target_uuid, key) ==
  ChangeInList(objects, ConfigListOf(objects, target_uuid),
               LAMBDA settings : MapRemove(settings, key))

\* ---- src/types/constants.rs ----

FILE_TYPES_BY_EXTENSION ==
  <<Entry(Cs(<<"a">>), Cs(<<"a","r","c","h","i","v","e",".","a","r">>)),
    Entry(Cs(<<"a","p","p">>), Cs(<<"w","r","a","p","p","e","r",".","a","p","p","l","i","c","a","t","i","o","n">>)),
    Entry(Cs(<<"a","p","p","e","x">>), Cs(<<"w","r","a","p","p","e","r",".","a","p","p","-","e","x","t","e","n","s","i","o","n">>)),
    Entry(Cs(<<"b","u","n","d","l","e">>), Cs(<<"w","r","a","p","p","e","r",".","p","l","u","g","-","i","n">>)),
    Entry(Cs(<<"c">>), Cs(<<"s","o","u","r","c","e","c","o","d","e",".","c",".","c">>)),
    Entry(Cs(<<"c","c">>), Cs(<<"s","o","u","r","c","e","c","o","d","e",".","c","p","p",".","c","p","p">>)),
    Entry(Cs(<<"c","p","p">>), Cs(<<"s","o","u","r","c","e","c","o","d","e",".","c","p","p",".","c","p","p">>)),
    Entry(Cs(<<"c","s","s">>), Cs(<<"t","e","x","t",".","c","s","s">>)),
    Entry(Cs(<<"c","x","x">>), Cs(<<"s","o","u","r","c","e","c","o","d","e",".","c","p","p",".","c","p","p">>)),
    Entry(Cs(<<"d">>), Cs(<<"s","o","u","r","c","e","c","o","d","e",".","d","t","r","a","c","e">>)),
    Entry(Cs(<<"d","y","l","i","b">>), Cs(<<"c","o","m","p","i","l","e","d",".","m","a","c","h","-","o",".","d","y","l","i","b">>)),
    Entry(Cs(<<"e","n","t","i","t","l","e","m","e","n","t","s">>), Cs(<<"t","e","x","t",".","p","l","i","s","t",".","e","n","t","i","t","l","e","m","e","n","t","s">>)),
    Entry(Cs(<<"f","r","a","m","e","w","o","r","k">>), Cs(<<"w","r","a","p","p","e","r",".","f","r","a","m","e","w","o","r","k">>)),
    Entry(Cs(<<"g","i","f">>), Cs(<<"i","m","a","g","e",".","g","i","f">>)),
    Entry(Cs(<<"g","p","x">>), Cs(<<"t","e","x","t",".","x","m","l">>)),
    Entry(Cs(<<"h">>), Cs(<<"s","o","u","r","c","e","c","o","d","e",".","c",".","h">>)),
    Entry(Cs(<<"h","h">>), Cs(<<"s","o","u","r","c","e","c","o","d","e",".","c","p","p",".","h">>)),
    Entry(Cs(<<"h","p","p">>), Cs(<<"s","o","u","r","c","e","c","o","d","e",".","c","p","p",".","h">>)),
    Entry(Cs(<<"h","t","m","l">>), Cs(<<"t","e","x","t",".","h","t","m","l">>)),
    Entry(Cs(<<"h","x","x">>), Cs(<<"s","o","u","r","c","e","c","o","d","e",".","c","p","p",".","h">>)),
    Entry(Cs(<<"i","p","p">>), Cs(<<"s","o","u","r","c","e","c","o","d","e",".","c","p","p",".","h">>)),
    Entry(Cs(<<"i","n","t","e","n","t","d","e","f","i","n","i","t","i","o","n">>), Cs(<<"f","i","l","e",".","i","n","t","e","n","t","d","e","f","i","n","i","t","i","o","n">>)),
    Entry(Cs(<<"j","p","e","g">>), Cs(<<"i","m","a","g","e",".","j","p","e","g">>)),
    Entry(Cs(<<"j","p","g">>), Cs(<<"i","m","a","g","e",".","j","p","e","g">>)),
    Entry(Cs(<<"j","s">>), Cs(<<"s","o","u","r","c","e","c","o","d","e",".","j","a","v","a","s","c","r","i","p","t">>)),
    Entry(Cs(<<"j","s","o","n">>), Cs(<<"t","e","x","t",".","j","s","o","n">>)),
    Entry(Cs(<<"m">>), Cs(<<"s","o","u","r","c","e","c","o","d","e",".","c",".","o","b","j","c">>)),
    Entry(Cs(<<"m","a","r","k","d","o","w","n">>), Cs(<<"n","e","t",".","d","a","r","i","n","g","f","i","r","e","b","a","l","l",".","m","a","r","k","d","o","w","n">>)),
    Entry(Cs(<<"m","d">>), Cs(<<"n","e","t",".","d","a","r","i","n","g","f","i","r","e","b","a","l","l",".","m","a","r","k","d","o","w","n">>)),
    Entry(Cs(<<"m","m">>), Cs(<<"s","o","u","r","c","e","c","o","d","e",".","c","p","p",".","o","b","j","c","p","p">>)),
    Entry(Cs(<<"m","o","d","u","l","e","m","a","p">>), Cs(<<"s","o","u","r","c","e","c","o","d","e",".","m","o","d","u","l","e">>)),
    Entry(Cs(<<"m","p","3">>), Cs(<<"a","u","d","i","o",".","m","p","3">>)),
    Entry(Cs(<<"p","c","h">>), Cs(<<"s","o","u","r","c","e","c","o","d","e",".","c",".","h">>)),
    Entry(Cs(<<"p","l","i","s","t">>), Cs(<<"t","e","x","t",".","p","l","i","s","t",".","x","m","l">>)),
    Entry(Cs(<<"p","n","g">>), Cs(<<"i","m","a","g","e",".","p","n","g">>)),
    Entry(Cs(<<"s">>), Cs(<<"s","o","u","r","c","e","c","o","d","e",".","a","s","m">>)),
    Entry(Cs(<<"s","h">>), Cs(<<"t","e","x","t",".","s","c","r","i","p","t",".","s","h">>)),
    Entry(Cs(<<"s","t","o","r","y","b","o","a","r","d">>), Cs(<<"f","i","l","e",".","s","t","o","r","y","b","o","a","r","d">>)),
    Entry(Cs(<<"s","t","r","i","n","g","s">>), Cs(<<"t","e","x","t",".","p","l","i","s","t",".","s","t","r","i","n","g","s">>)),
    Entry(Cs(<<"s","t","r","i","n","g","s","d","i","c","t">>), Cs(<<"t","e","x","t",".","p","l","i","s","t",".","s","t","r","i","n","g","s","d","i","c","t">>)),
    Entry(Cs(<<"s","w","i","f","t">>), Cs(<<"s","o","u","r","c","e","c","o","d","e",".","s","w","i","f","t">>)),
    Entry(Cs(<<"t","b","d">>), Cs(<<"s","o","u","r","c","e","c","o","d","e",".","t","e","x","t","-","b","a","s","e","d","-","d","y","l","i","b","-">>) \o Cs(<<"d","e","f","i","n","i","t","i","o","n">>)),
    Entry(Cs(<<"t","s">>), Cs(<<"s","o","u","r","c","e","c","o","d","e",".","j","a","v","a","s","c","r","i","p","t">>)),
    Entry(Cs(<<"t","s","x">>), Cs(<<"s","o","u","r","c","e","c","o","d","e",".","j","a","v","a","s","c","r","i","p","t">>)),
    Entry(Cs(<<"t","t","f">>), Cs(<<"f","i","l","e">>)),
    Entry(Cs(<<"w","a","v">>), Cs(<<"a","u","d","i","o",".","w","a","v">>)),
    Entry(Cs(<<"x","c","a","s","s","e","t","s">>), Cs(<<"f","o","l","d","e","r",".","a","s","s","e","t","c","a","t","a","l","o","g">>)),
    Entry(Cs(<<"x","c","c","o","n","f","i","g">>), Cs(<<"t","e","x","t",".","x","c","c","o","n","f","i","g">>)),
    Entry(Cs(<<"x","c","d","a","t","a","m","o","d","e","l">>), Cs(<<"w","r","a","p","p","e","r",".","x","c","d","a","t","a","m","o","d","e","l">>)),
    Entry(Cs(<<"x","c","d","a","t","a","m","o","d","e","l","d">>), Cs(<<"w","r","a","p","p","e","r",".","x","c","d","a","t","a","m","o","d","e","l","d">>)),
    Entry(Cs(<<"x","c","f","r","a","m","e","w","o","r","k">>), Cs(<<"w","r","a","p","p","e","r",".","x","c","f","r","a","m","e","w","o","r","k">>)),
    Entry(Cs(<<"x","i","b">>), Cs(<<"f","i","l","e",".","x","i","b">>)),
    Entry(Cs(<<"x","m","l">>), Cs(<<"t","e","x","t",".","x","m","l">>)),
    Entry(Cs(<<"y","a","m","l">>), Cs(<<"t","e","x","t",".","y","a","m","l">>)),
    Entry(Cs(<<"y","m","l">>), Cs(<<"t","e","x","t",".","y","a","m","l">>)),
    Entry(Cs(<<"z","i","p">>), Cs(<<"a","r","c","h","i","v","e",".","z","i","p">>))>>

SOURCETREE_BY_FILETYPE ==
  <<Entry(Cs(<<"w","r","a","p","p","e","r",".","a","p","p","l","i","c","a","t","i","o","n">>), Cs(<<"B","U","I","L","T","_","P","R","O","D","U","C","T","S","_","D","I","R">>)),
    Entry(Cs(<<"w","r","a","p","p","e","r",".","f","r","a","m","e","w","o","r","k">>), Cs(<<"B","U","I","L","T","_","P","R","O","D","U","C","T","S","_","D","I","R">>)),
    Entry(Cs(<<"c","o","m","p","i","l","e","d",".","m","a","c","h","-","o",".","d","y","l","i","b">>), Cs(<<"B","U","I","L","T","_","P","R","O","D","U","C","T","S","_","D","I","R">>)),
    Entry(Cs(<<"w","r","a","p","p","e","r",".","p","l","u","g","-","i","n">>), Cs(<<"B","U","I","L","T","_","P","R","O","D","U","C","T","S","_","D","I","R">>)),
    Entry(Cs(<<"a","r","c","h","i","v","e",".","a","r">>), Cs(<<"B","U","I","L","T","_","P","R","O","D","U","C","T","S","_","D","I","R">>))>>

\* ---- std::path::Path ----

\* The segments of a path between slashes, as pairs (first, last) of
\* positions, without the empty ones and the `.` ones.
PathSegments(path) ==
  { seg \in (1..Len(path)) \X (1..Len(path)) :
      /\ seg[1] <= seg[2]
      /\ \A i \in seg[1]..seg[2] : path[i] # 47
      /\ (seg[1] = 1 \/ path[seg[1] - 1] = 47)
      /\ (seg[2] = Len(path) \/ path[seg[2] + 1] = 47)
      /\ SubSeq(path, seg[1], seg[2]) # <<46>> }

\* The last of the segments.
LastOf(path, segments) ==
  SubSeq(path, (CHOOSE seg \in segments : \A other \in segments : other[2] <= seg[2])[1],
               (CHOOSE seg \in segments : \A other \in segments : other[2] <= seg[2])[2])

\* Path::file_name: the last component, none when the path has no component
\* or ends in `..`
FileNameAmong(path, segments) ==
  IF segments = {} THEN None
  ELSE IF LastOf(path, segments) = <<46, 46>> THEN None
  ELSE Some(LastOf(path, segments))

file_name(path) == FileNameAmong(path, PathSegments(path))

\* The extension of a file name whose dots are at the given positions.
ExtensionAt(name, dots) ==
  IF dots = {} \/ MaxOf(dots) = 1 THEN None
  ELSE Some(Drop(name, MaxOf(dots)))

\* Path::extension: what follows the last dot of the file name, none when
\* there is no dot or the only dot comes first
ExtensionOf(name) ==
  IF IsNone(name) THEN None
  ELSE ExtensionAt(Unwrap(name), {i \in 1..Len(Unwrap(name)) : Unwrap(name)[i] = 46})

extension(path) == ExtensionOf(file_name(path))

K_fileEncoding == Cs(<<"f","i","l","e","E","n","c","o","d","i","n","g">>)
K_lastKnownFileType == Cs(<<"l","a","s","t","K","n","o","w","n","F","i","l","e","T","y","p","e">>)
K_sourceTree == Cs(<<"s","o","u","r","c","e","T","r","e","e">>)
K_buildActionMask == Cs(<<"b","u","i","l","d","A","c","t","i","o","n","M","a","s","k">>)
K_runOnlyForDeploymentPostprocessing == Cs(<<"r","u","n","O","n","l","y","F","o","r","D","e","p","l","o","y","m","e","n","t","P","o","s","t","p","r","o","c">>) \o Cs(<<"e","s","s","i","n","g">>)
K_proxyType == Cs(<<"p","r","o","x","y","T","y","p","e">>)
K_productType == Cs(<<"p","r","o","d","u","c","t","T","y","p","e">>)
K_settings == Cs(<<"s","e","t","t","i","n","g","s">>)
K_ATTRIBUTES == Cs(<<"A","T","T","R","I","B","U","T","E","S">>)
K_dstPath == Cs(<<"d","s","t","P","a","t","h">>)
K_dstSubfolderSpec == Cs(<<"d","s","t","S","u","b","f","o","l","d","e","r","S","p","e","c">>)
S_file == Cs(<<"f","i","l","e">>)
S_group == Cs(<<"<","g","r","o","u","p",">">>)
S_SDKROOT == Cs(<<"S","D","K","R","O","O","T">>)
S_DotFramework == Cs(<<".","f","r","a","m","e","w","o","r","k">>)
S_SystemLibraryFrameworks == Cs(<<"S","y","s","t","e","m","/","L","i","b","r","a","r","y","/","F","r","a","m","e","w","o","r","k","s","/">>)
S_WrapperFramework == Cs(<<"w","r","a","p","p","e","r",".","f","r","a","m","e","w","o","r","k">>)
S_RemoveHeadersOnCopy == Cs(<<"R","e","m","o","v","e","H","e","a","d","e","r","s","O","n","C","o","p","y">>)
S_MaxMask == Cs(<<"2","1","4","7","4","8","3","6","4","7">>)
PBXFrameworksBuildPhase == Cs(<<"P","B","X","F","r","a","m","e","w","o","r","k","s","B","u","i","l","d","P","h","a","s","e">>)
PBXCopyFilesBuildPhase == Cs(<<"P","B","X","C","o","p","y","F","i","l","e","s","B","u","i","l","d","P","h","a","s","e">>)
S_OnDemandInstallCapable == Cs(<<"c","o","m",".","a","p","p","l","e",".","p","r","o","d","u","c","t","-","t","y","p","e",".","a","p","p","l","i">>) \o Cs(<<"c","a","t","i","o","n",".","o","n","-","d","e","m","a","n","d","-","i","n","s","t","a","l","l","-","c","a","p">>) \o Cs(<<"a","b","l","e">>)
S_Application == Cs(<<"c","o","m",".","a","p","p","l","e",".","p","r","o","d","u","c","t","-","t","y","p","e",".","a","p","p","l","i">>) \o Cs(<<"c","a","t","i","o","n">>)
S_ExtensionKitExtension == Cs(<<"c","o","m",".","a","p","p","l","e",".","p","r","o","d","u","c","t","-","t","y","p","e",".","e","x","t","e","n">>) \o Cs(<<"s","i","o","n","k","i","t","-","e","x","t","e","n","s","i","o","n">>)
S_AppClipsPath == Cs(<<"$","(","C","O","N","T","E","N","T","S","_","F","O","L","D","E","R","_","P","A","T","H",")","/","A","p","p","C">>) \o Cs(<<"l","i","p","s">>)
S_WatchPath == Cs(<<"$","(","C","O","N","T","E","N","T","S","_","F","O","L","D","E","R","_","P","A","T","H",")","/","W","a","t","c">>) \o Cs(<<"h">>)
S_ExtensionsPath == Cs(<<"$","(","E","X","T","E","N","S","I","O","N","S","_","F","O","L","D","E","R","_","P","A","T","H",")">>)
S_EmbedAppClips == Cs(<<"E","m","b","e","d"," ","A","p","p"," ","C","l","i","p","s">>)
S_EmbedWatchContent == Cs(<<"E","m","b","e","d"," ","W","a","t","c","h"," ","C","o","n","t","e","n","t">>)
S_EmbedExtensionKit == Cs(<<"E","m","b","e","d"," ","E","x","t","e","n","s","i","o","n","K","i","t"," ","E","x","t","e","n","s","i","o","n">>) \o Cs(<<"s">>)
S_EmbedFoundation == Cs(<<"E","m","b","e","d"," ","F","o","u","n","d","a","t","i","o","n"," ","E","x","t","e","n","s","i","o","n","s">>)

\* ---- file and group operations ----

\* The properties of the PBXFileReference of add_file, file_type being the
\* type of the extension and name the file name (or the path).
FileReferenceProps(path, name, file_type) ==
  <<Entry(K_isa, StringV(PBXFileReference)),
    Entry(K_fileEncoding, IntV(4)),
    Entry(K_lastKnownFileType, StringV(file_type))>>
  \o (IF name # path THEN <<Entry(K_name, StringV(name))>> ELSE <<>>)
  \o <<Entry(K_path, StringV(path)),
       Entry(K_sourceTree,
             StringV(Unwrap(OrElse(MapGet(SOURCETREE_BY_FILETYPE, file_type), Some(S_group)))))>>

\* FILE_TYPES_BY_EXTENSION.get(ext).copied().unwrap_or("file")
FileTypeOf(ext) ==
  Unwrap(OrElse(MapGet(FILE_TYPES_BY_EXTENSION, UnwrapOrDefault(ext)), Some(S_file)))

add_file(objects, group_uuid, path) ==
  Linked(create_object(objects,
           FileReferenceProps(path, Unwrap(OrElse(file_name(path), Some(path))),
                              FileTypeOf(extension(path)))),
         group_uuid, K_children)

add_group(objects, parent_uuid, name) ==
  Linked(create_object(objects,
           <<Entry(K_isa, StringV(PBXGroup)),
             Entry(K_children, ArrayV(<<>>)),
             Entry(K_name, StringV(name)),
             Entry(K_sourceTree, StringV(S_group))>>),
         parent_uuid, K_children)

\* ---- build phase operations ----

add_build_file(objects, phase_uuid, file_ref_uuid) ==
  Linked(create_object(objects,
           <<Entry(K_isa, StringV(PBXBuildFile)),
             Entry(K_fileRef, StringV(file_ref_uuid))>>),
         phase_uuid, K_files)

\* phase_val names an object of the table whose isa is phase_isa
IsPhaseOfIsa(objects, phase_val, phase_isa) ==
  /\ phase_val.t = "String"
  /\ MapHas(objects, phase_val.s)
  /\ MapVal(objects, phase_val.s).isa = phase_isa

\* The loop of find_build_phase.
FirstPhase(objects, phases, phase_isa) ==
  IF \E i \in 1..Len(phases) : IsPhaseOfIsa(objects, phases[i], phase_isa)
  THEN get_object(objects,
         phases[CHOOSE i \in 1..Len(phases) :
                  /\ IsPhaseOfIsa(objects, phases[i], phase_isa)
                  /\ \A j \in 1..(i - 1) : ~IsPhaseOfIsa(objects, phases[j], phase_isa)].s)
  ELSE None

find_build_phase(objects, target_uuid, phase_isa) ==
  IF ~MapHas(objects, target_uuid) THEN None
  ELSE IF IsNone(GetArray(MapVal(objects, target_uuid).props, K_buildPhases)) THEN None
  ELSE FirstPhase(objects, Unwrap(GetArray(MapVal(objects, target_uuid).props, K_buildPhases)),
                  phase_isa)

\* ensure_build_phase, existing being what find_build_phase returned.
FindOrCreatePhase(objects, existing, target_uuid, phase_isa) ==
  IF IsSome(existing) THEN Outcome(RetSome(Unwrap(existing).uuid), objects)
  ELSE Linked(create_object(objects,
                <<Entry(K_isa, StringV(phase_isa)),
                  Entry(K_buildActionMask, IntegerV(S_MaxMask)),
                  Entry(K_files, ArrayV(<<>>)),
                  Entry(K_runOnlyForDeploymentPostprocessing, IntV(0))>>),
              target_uuid, K_buildPhases)

ensure_build_phase(objects, target_uuid, phase_isa) ==
  FindOrCreatePhase(objects, find_build_phase(objects, target_uuid, phase_isa),
                    target_uuid, phase_isa)

\* The name of add_framework: framework_name with `.framework` at its end.
FrameworkName(framework_name) ==
  IF EndsWith(framework_name, S_DotFramework) THEN framework_name
  ELSE framework_name \o S_DotFramework

\* The last line of add_framework, phase being what ensure_build_phase
\* returned (`?` returns None when it is None).
AddFrameworkBuildFile(phase, file_ref_uuid) ==
  IF phase.ret.kind = "None" THEN phase
  ELSE add_build_file(phase.objects, phase.ret.s, file_ref_uuid)

\* add_framework after the file reference is created.
AddFrameworkPhase(file_ref, target_uuid) ==
  AddFrameworkBuildFile(
    ensure_build_phase(file_ref.objects, target_uuid, PBXFrameworksBuildPhase),
    file_ref.uuid)

add_framework(objects, target_uuid, framework_name) ==
  AddFrameworkPhase(
    create_object(objects,
      <<Entry(K_isa, StringV(PBXFileReference)),
        Entry(K_lastKnownFileType, StringV(S_WrapperFramework)),
        Entry(K_name, StringV(FrameworkName(framework_name))),
        Entry(K_path, StringV(S_SystemLibraryFrameworks \o FrameworkName(framework_name))),
        Entry(K_sourceTree, StringV(S_SDKROOT))>>),
    target_uuid)

\* ---- target operations ----

\* The properties of the PBXContainerItemProxy of add_dependency.
ProxyProps(root_object_uuid, depends_on_uuid, remote_name) ==
  <<Entry(K_isa, StringV(PBXContainerItemProxy)),
    Entry(K_containerPortal, StringV(root_object_uuid)),
    Entry(K_proxyType, IntV(1)),
    Entry(K_remoteGlobalIDString, StringV(depends_on_uuid)),
    Entry(K_remoteInfo, StringV(remote_name))>>

\* get_object(depends_on_uuid).and_then(get_str("name")).unwrap_or("Unknown")
RemoteName(objects, depends_on_uuid) ==
  IF MapHas(objects, depends_on_uuid)
  THEN Unwrap(OrElse(GetStr(MapVal(objects, depends_on_uuid).props, K_name), Some(S_Unknown)))
  ELSE S_Unknown

\* add_dependency after the proxy is created.
AddTargetDependency(proxy, target_uuid, depends_on_uuid) ==
  Linked(create_object(proxy.objects,
           <<Entry(K_isa, StringV(PBXTargetDependency)),
             Entry(K_target, StringV(depends_on_uuid)),
             Entry(K_targetProxy, StringV(proxy.uuid))>>),
         target_uuid, K_dependencies)

add_dependency(objects, root_object_uuid, target_uuid, depends_on_uuid) ==
  AddTargetDependency(
    create_object(objects,
      ProxyProps(root_object_uuid, depends_on_uuid, RemoteName(objects, depends_on_uuid))),
    target_uuid, depends_on_uuid)

\* ---- generic property access and target names ----

set_object_property(objects, uuid, key, value) ==
  IF MapHas(objects, uuid)
  THEN Outcome(RetBool(TRUE),
         WithProps(objects, uuid, MapInsert(MapVal(objects, uuid).props, key, StringV(value))))
  ELSE Outcome(RetBool(FALSE), objects)

set_target_name(objects, target_uuid, name) ==
  IF MapHas(objects, target_uuid)
  THEN Outcome(RetBool(TRUE),
         WithProps(objects, target_uuid,
           MapInsert(MapInsert(MapVal(objects, target_uuid).props, K_name, StringV(name)),
                     K_productName, StringV(name))))
  ELSE Outcome(RetBool(FALSE), objects)

\* The positions at which pattern occurs in str.
MatchPositions(str, pattern) ==
  { i \in 1..(Len(str) - Len(pattern) + 1) : SubSeq(str, i, i + Len(pattern) - 1) = pattern }

MinOf(S) == CHOOSE i \in S : \A j \in S : i <= j

\* str::replace: every match of the pattern, left to right and without
\* overlap, is replaced; the empty pattern matches before every character
\* and at the end
RECURSIVE replace(_, _, _)
ReplaceFrom(str, from, to, matches) ==
  IF matches = {} THEN str
  ELSE Take(str, MinOf(matches) - 1) \o to
       \o replace(Drop(str, MinOf(matches) - 1 + Len(from)), from, to)

replace(str, from, to) ==
  IF from = <<>> THEN to \o Flatten([i \in 1..Len(str) |-> <<str[i]>> \o to])
  ELSE ReplaceFrom(str, from, to, MatchPositions(str, from))

\* Step 2 of rename_target: the path of the product reference.
RenameProduct(objects, product_ref_uuid, old_name, new_name) ==
  IF /\ IsSome(product_ref_uuid)
     /\ MapHas(objects, Unwrap(product_ref_uuid))
     /\ IsSome(GetStr(MapVal(objects, Unwrap(product_ref_uuid)).props, K_path))
  THEN WithProps(objects, Unwrap(product_ref_uuid),
         MapInsert(MapVal(objects, Unwrap(product_ref_uuid)).props, K_path,
           StringV(replace(Unwrap(GetStr(MapVal(objects, Unwrap(product_ref_uuid)).props, K_path)),
                           old_name, new_name))))
  ELSE objects

\* main_group_uuid
main_group_uuid(objects, root_object_uuid) ==
  IF MapHas(objects, root_object_uuid)
  THEN GetStr(MapVal(objects, root_object_uuid).props, K_mainGroup)
  ELSE None

\* get_group_children, as the set of the uuids
get_group_children(objects, group_uuid) ==
  IF MapHas(objects, group_uuid)
  THEN StringsOf(Unwrap(OrElse(GetArray(MapVal(objects, group_uuid).props, K_children), Some(<<>>))))
  ELSE {}

\* The properties of a child whose path is old_name, renamed.
RenamedChild(props, new_name) ==
  IF IsSome(GetStr(props, K_name))
  THEN MapInsert(MapInsert(props, K_path, StringV(new_name)), K_name, StringV(new_name))
  ELSE MapInsert(props, K_path, StringV(new_name))

\* Step 3 of rename_target.  Each turn of the loop touches one child, and a
\* second turn on the same child changes nothing more, so the loop is a map
\* over the table.
RenameChildren(objects, children, old_name, new_name) ==
  [i \in 1..Len(objects) |->
     IF objects[i].key \in children /\ GetStr(objects[i].value.props, K_path) = Some(old_name)
     THEN Entry(objects[i].key,
            [objects[i].value EXCEPT !.props = RenamedChild(objects[i].value.props, new_name)])
     ELSE objects[i]]

\* Step 3 of rename_target with the main group looked up.
RenameMainGroupChildren(objects, main_group, old_name, new_name) ==
  IF IsNone(main_group) THEN objects
  ELSE RenameChildren(objects, get_group_children(objects, Unwrap(main_group)),
                      old_name, new_name)

\* Step 4 of rename_target: the remoteInfo of the proxies.
RenameProxies(objects, old_name, new_name) ==
  [i \in 1..Len(objects) |->
     IF /\ objects[i].value.isa = PBXContainerItemProxy
        /\ GetStr(objects[i].value.props, K_remoteInfo) = Some(old_name)
     THEN Entry(objects[i].key,
            [objects[i].value EXCEPT !.props =
               MapInsert(objects[i].value.props, K_remoteInfo, StringV(new_name))])
     ELSE objects[i]]

\* Steps 3 and 4 of rename_target.
RenameInGroupAndProxies(objects, root_object_uuid, old_name, new_name) ==
  RenameProxies(
    RenameMainGroupChildren(objects, main_group_uuid(objects, root_object_uuid),
                            old_name, new_name),
    old_name, new_name)

\* rename_target after set_target_name.
RenameRest(named, root_object_uuid, target_uuid, old_name, new_name) ==
  IF named.ret.kind = "false" THEN named
  ELSE Outcome(RetBool(TRUE),
         RenameInGroupAndProxies(
           RenameProduct(named.objects,
                         GetStr(MapVal(named.objects, target_uuid).props, K_productReference),
                         old_name, new_name),
           root_object_uuid, old_name, new_name))

rename_target(objects, root_object_uuid, target_uuid, old_name, new_name) ==
  RenameRest(set_target_name(objects, target_uuid, new_name),
             root_object_uuid, target_uuid, old_name, new_name)

\* ---- extension embedding ----

\* (dstSubfolderSpec, dstPath, phase name) by the product type.
EmbedDestination(product_type) ==
  CASE product_type = S_OnDemandInstallCapable ->
         [spec |-> 16, path |-> S_AppClipsPath, name |-> S_EmbedAppClips]
    [] product_type = S_Application ->
         [spec |-> 16, path |-> S_WatchPath, name |-> S_EmbedWatchContent]
    [] product_type = S_ExtensionKitExtension ->
         [spec |-> 16, path |-> S_ExtensionsPath, name |-> S_EmbedExtensionKit]
    [] OTHER -> [spec |-> 13, path |-> <<>>, name |-> S_EmbedFoundation]

\* embed_extension after the build file is created.
EmbedPhase(build_file, host_target_uuid, destination) ==
  Linked(create_object(build_file.objects,
           <<Entry(K_isa, StringV(PBXCopyFilesBuildPhase)),
             Entry(K_buildActionMask, IntegerV(S_MaxMask)),
             Entry(K_dstPath, StringV(destination.path)),
             Entry(K_dstSubfolderSpec, IntV(destination.spec)),
             Entry(K_files, ArrayV(<<StringV(build_file.uuid)>>)),
             Entry(K_name, StringV(destination.name)),
             Entry(K_runOnlyForDeploymentPostprocessing, IntV(0))>>),
         host_target_uuid, K_buildPhases)

\* embed_extension once the extension target is found.
EmbedProduct(objects, host_target_uuid, ext_props) ==
  IF IsNone(GetStr(ext_props, K_productType)) THEN Outcome(RetNone, objects)
  ELSE IF IsNone(GetStr(ext_props, K_productReference)) THEN Outcome(RetNone, objects)
  ELSE EmbedPhase(
         create_object(objects,
           <<Entry(K_isa, StringV(PBXBuildFile)),
             Entry(K_fileRef, StringV(Unwrap(GetStr(ext_props, K_productReference)))),
             Entry(K_settings,
                   ObjectV(<<Entry(K_ATTRIBUTES, ArrayV(<<StringV(S_RemoveHeadersOnCopy)>>))>>))>>),
         host_target_uuid,
         EmbedDestination(Unwrap(GetStr(ext_props, K_productType))))

embed_extension(objects, host_target_uuid, extension_target_uuid) ==
  IF ~MapHas(objects, extension_target_uuid) THEN Outcome(RetNone, objects)
  ELSE EmbedProduct(objects, host_target_uuid, MapVal(objects, extension_target_uuid).props)

\* ---- file system sync groups ----

\* The match on fileSystemSynchronizedGroups of the target: push to the
\* array, or insert a new array.
WithSyncGroup(props, sync_group_uuid) ==
  MapInsert(props, K_fileSystemSynchronizedGroups,
    ArrayV(Append(Unwrap(OrElse(GetArray(props, K_fileSystemSynchronizedGroups), Some(<<>>))),
                  StringV(sync_group_uuid))))

\* The sync group is added to the target, when there is one.
AddToTarget(objects, target_uuid, sync_group_uuid) ==
  IF MapHas(objects, target_uuid)
  THEN WithProps(objects, target_uuid,
                 WithSyncGroup(MapVal(objects, target_uuid).props, sync_group_uuid))
  ELSE objects

\* The sync group is added to the children of the main group.
AddToMainGroup(objects, main_group, sync_group_uuid) ==
  IF IsNone(main_group) THEN objects
  ELSE PushRef(objects, Unwrap(main_group), K_children, sync_group_uuid)

\* add_file_system_sync_group after the group is created.
SyncGroupAdded(created, root_object_uuid, target_uuid) ==
  Outcome(RetSome(created.uuid),
    AddToMainGroup(AddToTarget(created.objects, target_uuid, created.uuid),
                   main_group_uuid(created.objects, root_object_uuid),
                   created.uuid))

add_file_system_sync_group(objects, root_object_uuid, target_uuid, path) ==
  SyncGroupAdded(
    create_object(objects,
      <<Entry(K_isa, StringV(PBXFileSystemSynchronizedRootGroup)),
        Entry(K_path, StringV(path)),
        Entry(K_sourceTree, StringV(S_group))>>),
    root_object_uuid, target_uuid)

\* ------------------------------------------------------------------------
\* Text round trip: parse, build, parse again, build again
\* ------------------------------------------------------------------------

\* The most items in the body of a generated flat document.
MaxItems == 2

\* The minimal document: shebang line, two version assignments, closing
\* brace, nothing after it.
MinimalDocument ==
  <<47, 47, 32>> \o S_Shebang \o <<10, 123, 10, 9>>
  \o Cs(<<"a","r","c","h","i","v","e","V","e","r","s","i","o","n"," ","="," ","1",";">>) \o <<10, 9>>
  \o Cs(<<"o","b","j","e","c","t","V","e","r","s","i","o","n"," ","="," ","4","6",";">>) \o <<10, 125>>

RTKeyTexts == { Cs(<<"a">>),
     Cs(<<"S","W","I","F","T","_","V","E","R","S","I","O","N">>) }

RTValueTexts ==
  { Cs(<<"5">>),
     Cs(<<"DQ","5","DQ">>),
     Cs(<<"5",".","5">>),
     Cs(<<"-","5",".","5">>),
     Cs(<<"5",".">>),
     Cs(<<"0","5">>),
     Cs(<<"DQ","a"," ","b","DQ">>),
     Cs(<<"a","b","c">>),
     Cs(<<"<","a","b",">">>),
     Cs(<<"(","a",","," ","(","b",")",","," ","c",")">>),
     Cs(<<"{","}">>),
     Cs(<<"{","b"," ","="," ","c",";","}">>) }

\* key = value; for every key and value text
RTItems == { k \o S_Assign \o v \o <<59, 32>> : k \in RTKeyTexts, v \in RTValueTexts }

RECURSIVE RTBodies(_)
\* The bodies of at most n items.
RTBodies(n) ==
  IF n = 0 THEN { <<>> }
  ELSE RTBodies(n - 1) \cup { b \o i : b \in RTBodies(n - 1), i \in RTItems }

RTFlatDocuments == { <<123, 32>> \o b \o <<125>> : b \in RTBodies(MaxItems) }

RTIdTexts == { Cs(<<"A">>),
     Cs(<<"5">>),
     Cs(<<"DQ","a"," ","b","DQ">>) }
RTIsaTexts == { Cs(<<"P","B","X","B","u","i","l","d","F","i","l","e">>),
     Cs(<<"P","B","X","F","i","l","e","R","e","f","e","r","e","n","c","e">>),
     Cs(<<"P","B","X","G","r","o","u","p">>),
     Cs(<<"DQ","*","/","DQ">>),
     Cs(<<"P","B","X","S","o","u","r","c","e","s","B","u","i","l","d","P","h","a","s","e">>),
     Cs(<<"X","C","C","o","n","f","i","g","u","r","a","t","i","o","n","L","i","s","t">>) }
RTPropTexts == { Cs(<<"f","i","l","e","R","e","f"," ","="," ","A",";">>),
     Cs(<<"n","a","m","e"," ","="," ","DQ","x"," ","y","DQ",";">>),
     Cs(<<"p","a","t","h"," ","="," ","p",";">>),
     Cs(<<"f","i","l","e","s"," ","="," ","(","A",")",";">>),
     Cs(<<"S","W","I","F","T","_","V","E","R","S","I","O","N"," ","="," ","5",";">>),
     Cs(<<"S","W","I","F","T","_","V","E","R","S","I","O","N"," ","="," ","5",".",";">>) }

\* Documents with an objects table of one object and a reference to id A.
RTTableDocuments ==
  { Cs(<<"{","o","b","j","e","c","t","s"," ","="," ","{">>) \o id \o Cs(<<" ","="," ","{","i","s","a"," ","="," ">>) \o isa \o <<59, 32>> \o prop
    \o Cs(<<"}",";"," ","}",";"," ","r"," ","="," ","A",";"," ","}">>) :
    id \in RTIdTexts, isa \in RTIsaTexts, prop \in RTPropTexts }

\* The minimal document as it is, with a final newline, with text after the
\* closing brace and cut short; an array document; text that is no document;
\* a table that holds an object and a string.
RTOtherDocuments ==
  { MinimalDocument,
    MinimalDocument \o <<10>>,
    MinimalDocument \o Cs(<<" ","t","r","a","i","l","i","n","g">>),
    Take(MinimalDocument, Len(MinimalDocument) - 1),
    Cs(<<"(","a",","," ","DQ","b"," ","c","DQ",","," ","5",")">>),
    Cs(<<"{","a"," ","="," ","DQ","b",";","}">>),
    Cs(<<"a"," ","="," ","b",";">>),
    Cs(<<"{","o","b","j","e","c","t","s"," ","="," ","{","B"," ","="," ","{","i","s","a"," ","="," ","P","B","X","G","r","o","u","p",";","}",";">>)
      \o Cs(<<" ","A"," ","="," ","x",";"," ","}",";"," ","r"," ","="," ","A",";"," ","}">>) }

\* The greatest length of the literals made of the atom alphabet.
MaxAtomLen == 3

\* '0', '5', '.', '-' and 'a'
AtomAlphabet == {48, 53, 46, 45, 97}

RECURSIVE AtomStrings(_)
\* The strings of at most n characters of the alphabet.
AtomStrings(n) ==
  IF n = 0 THEN { <<>> }
  ELSE AtomStrings(n - 1) \cup { a \o <<c>> : a \in AtomStrings(n - 1), c \in AtomAlphabet }

S_MaxSafePlusOne == Cs(<<"9","0","0","7","1","9","9","2","5","4","7","4","0","9","9","2">>)
S_MaxSafeMinusOne == Cs(<<"9","0","0","7","1","9","9","2","5","4","7","4","0","9","9","0">>)
S_FifteenDigits == Cs(<<"9","0","0","7","1","9","9","2","5","4","7","4","0","9","9">>)
S_SeventeenDigits == Cs(<<"1","0","0","0","0","0","0","0","0","0","0","0","0","0","0","0","0">>)
S_TwentyDigits == Cs(<<"9","9","9","9","9","9","9","9","9","9","9","9","9","9","9","9","9","9","9","9">>)
S_Octal == Cs(<<"0","7","5","5">>)

\* Literals around 2^53 - 1 and past i64::MAX, and a file mode.
LongLiterals ==
  { MAX_SAFE_INTEGER, S_MaxSafePlusOne, S_MaxSafeMinusOne, S_FifteenDigits,
    S_SeventeenDigits, S_TwentyDigits, S_Octal }

AtomLiterals == (AtomStrings(MaxAtomLen) \ { <<>> }) \cup LongLiterals

\* { a = literal; }
AtomDocument(literal) == <<123, 32, 97>> \o S_Assign \o literal \o <<59, 32, 125>>

\* { a = "literal"; }
QuotedDocument(literal) ==
  <<123, 32, 97>> \o S_Assign \o <<34>> \o literal \o <<34, 59, 32, 125>>

\* { literal = a; }
KeyDocument(literal) == <<123, 32>> \o literal \o S_Assign \o <<97, 59, 32, 125>>

\* The literals that are also read between quotes and as keys.
QuotedLiterals == { <<48>>, <<53>>, <<53, 46, 53>>, <<48, 53>>, S_MaxSafePlusOne }

RTAtomDocuments ==
  { AtomDocument(l) : l \in AtomLiterals }
  \cup { QuotedDocument(l) : l \in QuotedLiterals }
  \cup { KeyDocument(l) : l \in QuotedLiterals }

RTInputs ==
  RTFlatDocuments \cup RTTableDocuments \cup RTOtherDocuments \cup RTAtomDocuments

NoResult == [ok |-> FALSE, val |-> StringV(<<>>)]

VARIABLES
  input,     \* the text handed to parse
  pc,        \* how far the round trip has come
  parsed,    \* parse(input)
  built,     \* build of the parsed value
  reparsed,  \* parse(built)
  rebuilt,   \* build of the reparsed value
  plist,     \* the value handed to from_plist_value
  lpc,       \* "start", then "loaded" or "load_error"
  project,   \* the XcodeProject
  before,    \* the objects table before the last call
  call,      \* the last call: operation, arguments and result
  ops,       \* the number of calls made
  token,     \* the string handed to the escape codec
  tpc,       \* how far the codec round trip has come
  encoded,   \* what add_quotes, ensure_quotes and write_ensure_quotes_to made of it
  decoded,   \* unescape_string of the escaped text, or the resolved value
  lookup     \* the variables handed to resolve_xcode_build_setting

rtVars == <<input, pc, parsed, built, reparsed, rebuilt>>
projVars == <<plist, lpc, project, before, call, ops>>
textVars == <<token, tpc, encoded, decoded, lookup>>
vars == <<input, pc, parsed, built, reparsed, rebuilt, plist, lpc, project, before, call, ops,
          token, tpc, encoded, decoded, lookup>>

\* A call record: the operation, its uuid arguments, its other string
\* argument, its value argument and what it returned.
Call(op, uuids, key, value, ret) ==
  [op |-> op, uuids |-> uuids, key |-> key, value |-> value, ret |-> ret]

NoCall == Call("none", <<>>, <<>>, StringV(<<>>), RetUnit)

\* No project is loaded.
ProjIdle ==
  /\ plist = StringV(<<>>)
  /\ lpc = "idle"
  /\ project = NoProject
  /\ before = <<>>
  /\ call = NoCall
  /\ ops = 0

\* What the codec functions make of one string.
Encoded(escaped, ensured, written) ==
  [escaped |-> escaped, ensured |-> ensured, written |-> written]

\* No string is in the codec.
TextIdle ==
  /\ token = <<>>
  /\ tpc = "idle"
  /\ encoded = Encoded(<<>>, <<>>, <<>>)
  /\ decoded = <<>>
  /\ lookup = <<>>

\* No text is being parsed.
RTIdle ==
  /\ input = <<>>
  /\ pc = "idle"
  /\ parsed = NoResult
  /\ built = <<>>
  /\ reparsed = NoResult
  /\ rebuilt = <<>>

InitRT ==
  /\ input \in RTInputs
  /\ pc = "start"
  /\ parsed = NoResult
  /\ built = <<>>
  /\ reparsed = NoResult
  /\ rebuilt = <<>>
  /\ ProjIdle
  /\ TextIdle

\* parse(input)
Parse ==
  /\ pc = "start"
  /\ parsed' = parse(input)
  /\ pc' = IF parsed'.ok THEN "parsed" ELSE "parse_error"
  /\ UNCHANGED <<input, built, reparsed, rebuilt>>
  /\ UNCHANGED projVars
  /\ UNCHANGED textVars

\* build(parsed): the text, or no return when the comment resolver recurses
\* without end (the process aborts on stack overflow).
Build ==
  /\ pc = "parsed"
  /\ IF create_reference_list(parsed.val).ok
     THEN built' = build(parsed.val) /\ pc' = "built"
     ELSE built' = built /\ pc' = "build_overflow"
  /\ UNCHANGED <<input, parsed, reparsed, rebuilt>>
  /\ UNCHANGED projVars
  /\ UNCHANGED textVars

\* parse(build(parsed))
Reparse ==
  /\ pc = "built"
  /\ reparsed' = parse(built)
  /\ pc' = IF reparsed'.ok THEN "reparsed" ELSE "reparse_error"
  /\ UNCHANGED <<input, parsed, built, rebuilt>>
  /\ UNCHANGED projVars
  /\ UNCHANGED textVars

\* build(parse(build(parsed)))
Rebuild ==
  /\ pc = "reparsed"
  /\ IF create_reference_list(reparsed.val).ok
     THEN rebuilt' = build(reparsed.val) /\ pc' = "rebuilt"
     ELSE rebuilt' = rebuilt /\ pc' = "rebuild_overflow"
  /\ UNCHANGED <<input, parsed, built, reparsed>>
  /\ UNCHANGED projVars
  /\ UNCHANGED textVars

NextRT == Parse \/ Build \/ Reparse \/ Rebuild

SpecRT == InitRT /\ [][NextRT]_vars

\* ------------------------------------------------------------------------
\* Round-trip claims
\* ------------------------------------------------------------------------

\* The second parse has been made.
Reparsed == pc \in {"reparsed", "reparse_error", "rebuilt", "rebuild_overflow"}

\* C1: for every value tree V that parse returns, parse(build(V)) succeeds
\* and is structurally equal to V (same keys in the same order, same variant
\* for every value, same sequence order).
C1_ParseAfterBuildIsIdentity == Reparsed => (reparsed.ok /\ reparsed.val = parsed.val)

\* C2: for every value tree V, parse accepts build(V), and
\* build(parse(build(V))) is byte-identical to build(V).
C2_BuildIsFixedPoint ==
  /\ Reparsed => reparsed.ok
  /\ pc = "rebuilt" => rebuilt = built

\* The minimal document has been parsed and built.
C4_MinimalDocumentBuilt == input = MinimalDocument /\ pc = "built"

\* C4 as the specification states it: the minimal document, with nothing
\* after its closing brace, round-trips byte-identically.
C4_MinimalRoundTripIdentical == C4_MinimalDocumentBuilt => built = input

\* C4, amended: build(parse(input)) of the minimal document is the document
\* followed by one newline, so it is the document ending in a newline after
\* the closing brace that round-trips byte-identically.
C4_MinimalRoundTripUpToNewline ==
  /\ C4_MinimalDocumentBuilt => built = input \o <<10>>
  /\ (input = MinimalDocument \o <<10>> /\ pc = "built") => built = input

\* ------------------------------------------------------------------------
\* Project facade: inputs
\* ------------------------------------------------------------------------

ID_R == Cs(<<"R">>)
ID_G == Cs(<<"G">>)
ID_F == Cs(<<"F">>)
ID_T == Cs(<<"T">>)
ID_L == Cs(<<"L">>)
ID_C == Cs(<<"C">>)
ID_D == Cs(<<"D">>)
ID_P == Cs(<<"P">>)
ID_B == Cs(<<"B">>)
ID_X == Cs(<<"X">>)
ID_MISSING == Cs(<<"M","I","S","S","I","N","G">>)
S_App == Cs(<<"A","p","p">>)
S_App_app == Cs(<<"A","p","p",".","a","p","p">>)
S_Debug == Cs(<<"D","e","b","u","g">>)
S_K == Cs(<<"K">>)
S_v == Cs(<<"v">>)
S_Release == Cs(<<"R","e","l","e","a","s","e">>)
S_PBXSourcesBuildPhase == Cs(<<"P","B","X","S","o","u","r","c","e","s","B","u","i","l","d","P","h","a","s","e">>)
S_junk == Cs(<<"j","u","n","k">>)
S_x == Cs(<<"x">>)
S_a == Cs(<<"a">>)
S_N == Cs(<<"N">>)
S_w == Cs(<<"w">>)
S_New == Cs(<<"N","e","w">>)
S_a_swift == Cs(<<"a",".","s","w","i","f","t">>)
S_d_b_a == Cs(<<"d","/","b",".","a">>)
S_Sub == Cs(<<"S","u","b">>)
S_UIKit == Cs(<<"U","I","K","i","t">>)
S_Src == Cs(<<"S","r","c">>)

ID_S == Cs(<<"S">>)
ID_Y == Cs(<<"Y">>)
S_SubApp == Cs(<<"S","u","b","A","p","p">>)

\* ---- create_native_target ----

PRODUCT_UTI_EXTENSIONS ==
  <<Entry(Cs(<<"c","o","m",".","a","p","p","l","e",".","p","r","o","d","u","c","t","-","t","y","p","e",".","a","p","p","l","i">>) \o Cs(<<"c","a","t","i","o","n">>),
          Cs(<<"a","p","p">>)),
    Entry(Cs(<<"c","o","m",".","a","p","p","l","e",".","p","r","o","d","u","c","t","-","t","y","p","e",".","a","p","p","l","i">>) \o Cs(<<"c","a","t","i","o","n",".","o","n","-","d","e","m","a","n","d","-","i","n","s","t","a","l","l","-","c","a","p">>) \o Cs(<<"a","b","l","e">>),
          Cs(<<"a","p","p">>)),
    Entry(Cs(<<"c","o","m",".","a","p","p","l","e",".","p","r","o","d","u","c","t","-","t","y","p","e",".","a","p","p","-","e">>) \o Cs(<<"x","t","e","n","s","i","o","n">>),
          Cs(<<"a","p","p","e","x">>)),
    Entry(Cs(<<"c","o","m",".","a","p","p","l","e",".","p","r","o","d","u","c","t","-","t","y","p","e",".","b","u","n","d","l">>) \o Cs(<<"e">>),
          Cs(<<"b","u","n","d","l","e">>)),
    Entry(Cs(<<"c","o","m",".","a","p","p","l","e",".","p","r","o","d","u","c","t","-","t","y","p","e",".","f","r","a","m","e">>) \o Cs(<<"w","o","r","k">>),
          Cs(<<"f","r","a","m","e","w","o","r","k">>)),
    Entry(Cs(<<"c","o","m",".","a","p","p","l","e",".","p","r","o","d","u","c","t","-","t","y","p","e",".","l","i","b","r","a">>) \o Cs(<<"r","y",".","d","y","n","a","m","i","c">>),
          Cs(<<"d","y","l","i","b">>)),
    Entry(Cs(<<"c","o","m",".","a","p","p","l","e",".","p","r","o","d","u","c","t","-","t","y","p","e",".","l","i","b","r","a">>) \o Cs(<<"r","y",".","s","t","a","t","i","c">>),
          Cs(<<"a">>)),
    Entry(Cs(<<"c","o","m",".","a","p","p","l","e",".","p","r","o","d","u","c","t","-","t","y","p","e",".","t","o","o","l">>),
          <<>>),
    Entry(Cs(<<"c","o","m",".","a","p","p","l","e",".","p","r","o","d","u","c","t","-","t","y","p","e",".","u","n","i","t","-">>) \o Cs(<<"t","e","s","t","-","b","u","n","d","l","e">>),
          Cs(<<"x","c","t","e","s","t">>)),
    Entry(Cs(<<"c","o","m",".","a","p","p","l","e",".","p","r","o","d","u","c","t","-","t","y","p","e",".","u","i","-","t","e">>) \o Cs(<<"s","t","i","n","g","-","b","u","n","d","l","e">>),
          Cs(<<"x","c","t","e","s","t">>)),
    Entry(Cs(<<"c","o","m",".","a","p","p","l","e",".","p","r","o","d","u","c","t","-","t","y","p","e",".","a","p","p","l","i">>) \o Cs(<<"c","a","t","i","o","n",".","w","a","t","c","h","a","p","p">>),
          Cs(<<"a","p","p">>)),
    Entry(Cs(<<"c","o","m",".","a","p","p","l","e",".","p","r","o","d","u","c","t","-","t","y","p","e",".","a","p","p","l","i">>) \o Cs(<<"c","a","t","i","o","n",".","w","a","t","c","h","a","p","p","2">>),
          Cs(<<"a","p","p">>)),
    Entry(Cs(<<"c","o","m",".","a","p","p","l","e",".","p","r","o","d","u","c","t","-","t","y","p","e",".","w","a","t","c","h">>) \o Cs(<<"k","i","t","-","e","x","t","e","n","s","i","o","n">>),
          Cs(<<"a","p","p","e","x">>))>>

S_Tool == Cs(<<"c","o","m",".","a","p","p","l","e",".","p","r","o","d","u","c","t","-","t","y","p","e",".","t","o","o","l">>)
S_app == Cs(<<"a","p","p">>)
S_WrapperApplication == Cs(<<"w","r","a","p","p","e","r",".","a","p","p","l","i","c","a","t","i","o","n">>)
S_BUILT_PRODUCTS_DIR == Cs(<<"B","U","I","L","T","_","P","R","O","D","U","C","T","S","_","D","I","R">>)
S_PRODUCT_BUNDLE_IDENTIFIER == Cs(<<"P","R","O","D","U","C","T","_","B","U","N","D","L","E","_","I","D","E","N","T","I","F","I","E","R">>)
S_PRODUCT_NAME == Cs(<<"P","R","O","D","U","C","T","_","N","A","M","E">>)
S_5_0 == Cs(<<"5",".","0">>)
S_com_x == Cs(<<"c","o","m",".","x">>)
K_explicitFileType == Cs(<<"e","x","p","l","i","c","i","t","F","i","l","e","T","y","p","e">>)
K_includeInIndex == Cs(<<"i","n","c","l","u","d","e","I","n","I","n","d","e","x">>)
K_defaultConfigurationIsVisible == Cs(<<"d","e","f","a","u","l","t","C","o","n","f","i","g","u","r","a","t","i","o","n","I","s","V","i","s","i","b","l">>) \o Cs(<<"e">>)
PBXResourcesBuildPhase == Cs(<<"P","B","X","R","e","s","o","u","r","c","e","s","B","u","i","l","d","P","h","a","s","e">>)

\* product_ref_group_uuid
product_ref_group_uuid(objects, root_object_uuid) ==
  IF MapHas(objects, root_object_uuid)
  THEN GetStr(MapVal(objects, root_object_uuid).props, K_productRefGroup)
  ELSE None

\* The properties of the product PBXFileReference.
ProductProps(product_ext, product_name) ==
  <<Entry(K_isa, StringV(PBXFileReference)),
    Entry(K_explicitFileType,
          StringV(Unwrap(OrElse(MapGet(FILE_TYPES_BY_EXTENSION, product_ext),
                                Some(S_WrapperApplication))))),
    Entry(K_includeInIndex, IntV(0)),
    Entry(K_path, StringV(product_name)),
    Entry(K_sourceTree, StringV(S_BUILT_PRODUCTS_DIR))>>

\* The properties of the Debug and the Release build configuration.
ConfigurationProps(config_name, name, bundle_id) ==
  <<Entry(K_isa, StringV(XCBuildConfiguration)),
    Entry(K_buildSettings,
          ObjectV(<<Entry(S_PRODUCT_BUNDLE_IDENTIFIER, StringV(bundle_id)),
                    Entry(S_PRODUCT_NAME, StringV(name)),
                    Entry(S_SWIFT_VERSION, StringV(S_5_0))>>)),
    Entry(K_name, StringV(config_name))>>

\* The configuration list without its default configuration name.
ConfigurationListWithoutDefault(debug_uuid, release_uuid) ==
  <<Entry(K_isa, StringV(XCConfigurationList)),
    Entry(K_buildConfigurations, ArrayV(<<StringV(debug_uuid), StringV(release_uuid)>>)),
    Entry(K_defaultConfigurationIsVisible, IntV(0))>>

ConfigurationListProps(debug_uuid, release_uuid) ==
  <<Entry(K_isa, StringV(XCConfigurationList)),
    Entry(K_buildConfigurations, ArrayV(<<StringV(debug_uuid), StringV(release_uuid)>>)),
    Entry(K_defaultConfigurationIsVisible, IntV(0)),
    Entry(K_defaultConfigurationName, StringV(S_Release))>>

\* The properties of a standard build phase.
StandardPhaseProps(phase_isa) ==
  <<Entry(K_isa, StringV(phase_isa)),
    Entry(K_buildActionMask, IntegerV(S_MaxMask)),
    Entry(K_files, ArrayV(<<>>)),
    Entry(K_runOnlyForDeploymentPostprocessing, IntV(0))>>

NativeTargetProps(name, product_type, config_list_uuid, phase_uuids, product_ref_uuid) ==
  <<Entry(K_isa, StringV(PBXNativeTarget)),
    Entry(K_buildConfigurationList, StringV(config_list_uuid)),
    Entry(K_buildPhases, ArrayV([i \in 1..Len(phase_uuids) |-> StringV(phase_uuids[i])])),
    Entry(K_buildRules, ArrayV(<<>>)),
    Entry(K_dependencies, ArrayV(<<>>)),
    Entry(K_name, StringV(name)),
    Entry(K_productName, StringV(name)),
    Entry(K_productReference, StringV(product_ref_uuid)),
    Entry(K_productType, StringV(product_type))>>

\* The product reference pushed to the children of the Products group.
AddedToProducts(product, products_uuid) ==
  IF IsSome(products_uuid)
  THEN PushRef(product.objects, Unwrap(products_uuid), K_children, product.uuid)
  ELSE product.objects

create_native_target(objects, root_object_uuid, name, product_type, bundle_id) ==
  LET product_ext == Unwrap(OrElse(MapGet(PRODUCT_UTI_EXTENSIONS, product_type), Some(S_app)))
      product_name == IF product_ext = <<>> THEN name ELSE name \o <<46>> \o product_ext
      product == create_object(objects, ProductProps(product_ext, product_name))
      grouped == AddedToProducts(product, product_ref_group_uuid(product.objects, root_object_uuid))
      debug == create_object(grouped, ConfigurationProps(S_Debug, name, bundle_id))
      release == create_object(debug.objects, ConfigurationProps(S_Release, name, bundle_id))
      config_list == create_object(release.objects,
                                   ConfigurationListProps(debug.uuid, release.uuid))
      sources == create_object(config_list.objects, StandardPhaseProps(S_PBXSourcesBuildPhase))
      frameworks == create_object(sources.objects, StandardPhaseProps(PBXFrameworksBuildPhase))
      resources == create_object(frameworks.objects, StandardPhaseProps(PBXResourcesBuildPhase))
      target == create_object(resources.objects,
                  NativeTargetProps(name, product_type, config_list.uuid,
                                    <<sources.uuid, frameworks.uuid, resources.uuid>>,
                                    product.uuid))
  IN Outcome(RetSome(target.uuid),
             PushRef(target.objects, root_object_uuid, K_targets, target.uuid))

\* A project with a target, its configurations, a group and a build phase.
ProjMain ==
  ObjectV(<<Entry(K_archiveVersion, IntV(1)),
    Entry(K_classes, ObjectV(<<>>)),
    Entry(K_objectVersion, IntV(46)),
    Entry(K_objects, ObjectV(<<Entry(ID_R, ObjectV(<<Entry(K_isa, StringV(PBXProject)),
        Entry(K_buildConfigurationList, StringV(ID_L)),
        Entry(K_mainGroup, StringV(ID_G)),
        Entry(K_targets, ArrayV(<<StringV(ID_T)>>))>>)),
      Entry(ID_G, ObjectV(<<Entry(K_isa, StringV(PBXGroup)),
        Entry(K_children, ArrayV(<<StringV(ID_F)>>)),
        Entry(K_path, StringV(S_App))>>)),
      Entry(ID_F, ObjectV(<<Entry(K_isa, StringV(PBXFileReference)),
        Entry(K_path, StringV(S_App_app))>>)),
      Entry(ID_T, ObjectV(<<Entry(K_isa, StringV(PBXNativeTarget)),
        Entry(K_buildConfigurationList, StringV(ID_L)),
        Entry(K_buildPhases, ArrayV(<<StringV(ID_P)>>)),
        Entry(K_dependencies, ArrayV(<<>>)),
        Entry(K_name, StringV(S_App)),
        Entry(K_productReference, StringV(ID_F)),
        Entry(K_productType, StringV(S_Application))>>)),
      Entry(ID_L, ObjectV(<<Entry(K_isa, StringV(XCConfigurationList)),
        Entry(K_buildConfigurations, ArrayV(<<StringV(ID_C), StringV(ID_D)>>)),
        Entry(K_defaultConfigurationName, StringV(S_Debug))>>)),
      Entry(ID_C, ObjectV(<<Entry(K_isa, StringV(XCBuildConfiguration)),
        Entry(K_buildSettings, ObjectV(<<Entry(S_K, StringV(S_v))>>)),
        Entry(K_name, StringV(S_Release))>>)),
      Entry(ID_D, ObjectV(<<Entry(K_isa, StringV(XCBuildConfiguration)),
        Entry(K_buildSettings, ObjectV(<<>>)),
        Entry(K_name, StringV(S_Debug))>>)),
      Entry(ID_P, ObjectV(<<Entry(K_isa, StringV(S_PBXSourcesBuildPhase)),
        Entry(K_files, ArrayV(<<StringV(ID_B)>>))>>)),
      Entry(ID_B, ObjectV(<<Entry(K_isa, StringV(PBXBuildFile)),
        Entry(K_fileRef, StringV(ID_F))>>))>>)),
    Entry(K_rootObject, StringV(ID_R))>>)

\* A project with dangling references, a blank reference, a configuration
\* list without default name and a configuration without build settings.
ProjBare ==
  ObjectV(<<Entry(K_objects, ObjectV(<<Entry(ID_R, ObjectV(<<Entry(K_isa, StringV(PBXProject)),
        Entry(K_mainGroup, StringV(<<>>)),
        Entry(K_targets, ArrayV(<<StringV(ID_T), StringV(ID_X)>>))>>)),
      Entry(ID_T, ObjectV(<<Entry(K_isa, StringV(PBXNativeTarget)),
        Entry(K_buildConfigurationList, StringV(ID_L)),
        Entry(K_name, StringV(S_App))>>)),
      Entry(ID_L, ObjectV(<<Entry(K_isa, StringV(XCConfigurationList)),
        Entry(K_buildConfigurations, ArrayV(<<StringV(ID_C), StringV(ID_D)>>))>>)),
      Entry(ID_C, ObjectV(<<Entry(K_isa, StringV(XCBuildConfiguration)),
        Entry(K_name, StringV(S_Debug))>>)),
      Entry(S_junk, StringV(S_x))>>)),
    Entry(K_rootObject, StringV(ID_R))>>)

\* A project with a command-line tool: the product has the name of the
\* target and lies in the main group beside the source group; a proxy names
\* the target and another one a configuration list that nothing refers to.
ProjTool ==
  ObjectV(<<Entry(K_objects, ObjectV(<<Entry(ID_R, ObjectV(<<Entry(K_isa, StringV(PBXProject)),
        Entry(K_mainGroup, StringV(ID_G)),
        Entry(K_targets, ArrayV(<<StringV(ID_T)>>))>>)),
      Entry(ID_G, ObjectV(<<Entry(K_isa, StringV(PBXGroup)),
        Entry(K_children, ArrayV(<<StringV(ID_S), StringV(ID_F)>>))>>)),
      Entry(ID_S, ObjectV(<<Entry(K_isa, StringV(PBXGroup)),
        Entry(K_children, ArrayV(<<>>)),
        Entry(K_name, StringV(S_App)),
        Entry(K_path, StringV(S_App))>>)),
      Entry(ID_F, ObjectV(<<Entry(K_isa, StringV(PBXFileReference)),
        Entry(K_name, StringV(S_App)),
        Entry(K_path, StringV(S_App))>>)),
      Entry(ID_T, ObjectV(<<Entry(K_isa, StringV(PBXNativeTarget)),
        Entry(K_buildPhases, ArrayV(<<>>)),
        Entry(K_name, StringV(S_App)),
        Entry(K_productReference, StringV(ID_F))>>)),
      Entry(ID_X, ObjectV(<<Entry(K_isa, StringV(PBXContainerItemProxy)),
        Entry(K_containerPortal, StringV(ID_R)),
        Entry(K_remoteInfo, StringV(S_App))>>)),
      Entry(ID_L, ObjectV(<<Entry(K_isa, StringV(XCConfigurationList)),
        Entry(K_buildConfigurations, ArrayV(<<>>))>>)),
      Entry(ID_Y, ObjectV(<<Entry(K_isa, StringV(PBXContainerItemProxy)),
        Entry(K_containerPortal, StringV(ID_L)),
        Entry(K_remoteInfo, StringV(S_SubApp))>>))>>)),
    Entry(K_rootObject, StringV(ID_R))>>)

ID_H == Cs(<<"0","1","2","3","4","5","6","7","8","9","A","B","C","D","E","F","0","1","2","3","4","5","6","7">>)

\* A project with no target and a Products group that holds a group whose
\* id is made of 24 hexadecimal digits.
ProjProducts ==
  ObjectV(<<Entry(K_objects, ObjectV(<<Entry(ID_R, ObjectV(<<Entry(K_isa, StringV(PBXProject)),
        Entry(K_productRefGroup, StringV(ID_G)),
        Entry(K_targets, ArrayV(<<>>))>>)),
      Entry(ID_G, ObjectV(<<Entry(K_isa, StringV(PBXGroup)),
        Entry(K_children, ArrayV(<<StringV(ID_H)>>))>>)),
      Entry(ID_H, ObjectV(<<Entry(K_isa, StringV(PBXGroup)),
        Entry(K_children, ArrayV(<<>>))>>))>>)),
    Entry(K_rootObject, StringV(ID_R))>>)

\* Values that from_plist_value rejects.
ProjArrayRoot == ArrayV(<<StringV(S_a)>>)
ProjStringRoot == StringV(S_a)
ProjNoRootObject == ObjectV(<<Entry(K_objects, ObjectV(<<Entry(ID_R, ObjectV(<<Entry(K_isa, StringV(PBXProject))>>))>>))>>)
ProjRootObjectNotString == ObjectV(<<Entry(K_objects, ObjectV(<<Entry(ID_R, ObjectV(<<Entry(K_isa, StringV(PBXProject))>>))>>)),
    Entry(K_rootObject, ArrayV(<<StringV(ID_R)>>))>>)
ProjNoObjects == ObjectV(<<Entry(K_rootObject, StringV(ID_R))>>)
ProjObjectsNotObject == ObjectV(<<Entry(K_objects, ArrayV(<<StringV(ID_R)>>)),
    Entry(K_rootObject, StringV(ID_R))>>)
ProjRootAbsent == ObjectV(<<Entry(K_objects, ObjectV(<<Entry(ID_G, ObjectV(<<Entry(K_isa, StringV(PBXGroup)),
        Entry(K_children, ArrayV(<<StringV(ID_R)>>))>>))>>)),
    Entry(K_rootObject, StringV(ID_R))>>)
ProjRootNotObject == ObjectV(<<Entry(K_objects, ObjectV(<<Entry(ID_R, StringV(PBXProject))>>)),
    Entry(K_rootObject, StringV(ID_R))>>)
ProjRootIsGroup == ObjectV(<<Entry(K_objects, ObjectV(<<Entry(ID_R, ObjectV(<<Entry(K_isa, StringV(PBXGroup))>>))>>)),
    Entry(K_rootObject, StringV(ID_R))>>)
ProjRootWithoutIsa == ObjectV(<<Entry(K_objects, ObjectV(<<Entry(ID_R, ObjectV(<<Entry(K_name, StringV(PBXProject))>>))>>)),
    Entry(K_rootObject, StringV(ID_R))>>)
ProjRootIsaNotString == ObjectV(<<Entry(K_objects, ObjectV(<<Entry(ID_R, ObjectV(<<Entry(K_isa, ArrayV(<<StringV(PBXProject)>>))>>))>>)),
    Entry(K_rootObject, StringV(ID_R))>>)

ProjInputs ==
  {ProjMain, ProjBare, ProjTool, ProjProducts,
   ProjArrayRoot,
   ProjStringRoot,
   ProjNoRootObject,
   ProjRootObjectNotString,
   ProjNoObjects,
   ProjObjectsNotObject,
   ProjRootAbsent,
   ProjRootNotObject,
   ProjRootIsGroup,
   ProjRootWithoutIsa,
   ProjRootIsaNotString}

\* The number of facade calls made on a loaded project.
MaxOps == 2

InitProj ==
  /\ plist \in ProjInputs
  /\ lpc = "start"
  /\ project = NoProject
  /\ before = <<>>
  /\ call = NoCall
  /\ ops = 0
  /\ RTIdle
  /\ TextIdle

\* XcodeProject::from_plist_value(plist)
Load ==
  /\ lpc = "start"
  /\ project' = from_plist_value(plist).project
  /\ lpc' = IF from_plist_value(plist).ok THEN "loaded" ELSE "load_error"
  /\ UNCHANGED <<plist, before, call, ops>>
  /\ UNCHANGED rtVars
  /\ UNCHANGED textVars

\* A facade call on the loaded project: the table and the result become
\* those of the outcome.
Apply(op, uuids, key, value, outcome) ==
  /\ lpc = "loaded"
  /\ ops < MaxOps
  /\ before' = project.objects
  /\ project' = [project EXCEPT !.objects = outcome.objects]
  /\ call' = Call(op, uuids, key, value, outcome.ret)
  /\ ops' = ops + 1
  /\ UNCHANGED <<plist, lpc>>
  /\ UNCHANGED rtVars
  /\ UNCHANGED textVars

\* The uuid arguments tried: uuids of the inputs, the empty string and a
\* uuid that is no key.
TargetArgs == {ID_T, ID_MISSING}
RemoveArgs == {ID_F, ID_T, ID_C, <<>>, ID_MISSING}

\* The properties handed to create_object.
CreateProps ==
  { <<Entry(K_isa, StringV(PBXGroup)), Entry(K_children, ArrayV(<<>>))>>,
    <<Entry(K_name, StringV(Cs(<<"a","DQ","b">>)))>> }

CreateObject ==
  \E props \in CreateProps :
    Apply("create_object", <<>>, <<>>, ObjectV(props),
          Outcome(RetSome(create_object(project.objects, props).uuid),
                  create_object(project.objects, props).objects))

DeleteObject ==
  \E uuid \in {ID_F, ID_MISSING} :
    Apply("delete_object", <<uuid>>, <<>>, StringV(<<>>),
          Outcome(IF MapHas(project.objects, uuid) THEN RetSome(uuid) ELSE RetNone,
                  delete_object(project.objects, uuid)))

RemoveObject ==
  \E uuid \in RemoveArgs :
    Apply("remove_object", <<uuid>>, <<>>, StringV(<<>>),
          Outcome(RetUnit, remove_object(project.objects, uuid)))

SetBuildSetting ==
  \E target_uuid \in TargetArgs \cup {ID_G}, key \in {S_K, S_N} :
    Apply("set_build_setting", <<target_uuid>>, key, StringV(S_w),
          set_build_setting(project.objects, target_uuid, key, StringV(S_w)))

RemoveBuildSetting ==
  \E target_uuid \in TargetArgs :
    Apply("remove_build_setting", <<target_uuid>>, S_K, StringV(<<>>),
          remove_build_setting(project.objects, target_uuid, S_K))

SetObjectProperty ==
  \E uuid \in {ID_G, ID_MISSING}, key \in {K_path, K_isa} :
    Apply("set_object_property", <<uuid>>, key, StringV(S_x),
          set_object_property(project.objects, uuid, key, S_x))

SetTargetName ==
  \E target_uuid \in TargetArgs :
    Apply("set_target_name", <<target_uuid>>, S_New, StringV(<<>>),
          set_target_name(project.objects, target_uuid, S_New))

RenameTarget ==
  \E target_uuid \in TargetArgs :
    Apply("rename_target", <<target_uuid>>, S_App, StringV(S_New),
          rename_target(project.objects, project.root_object_uuid, target_uuid,
                        S_App, S_New))

AddFile ==
  \E group_uuid \in {ID_G, ID_MISSING}, path \in {S_a_swift, S_d_b_a} :
    Apply("add_file", <<group_uuid>>, path, StringV(<<>>),
          add_file(project.objects, group_uuid, path))

AddGroup ==
  \E parent_uuid \in {ID_G, ID_MISSING} :
    Apply("add_group", <<parent_uuid>>, S_Sub, StringV(<<>>),
          add_group(project.objects, parent_uuid, S_Sub))

AddBuildFile ==
  \E phase_uuid \in {ID_P, ID_MISSING}, file_ref_uuid \in {ID_F, ID_MISSING} :
    Apply("add_build_file", <<phase_uuid, file_ref_uuid>>, <<>>, StringV(<<>>),
          add_build_file(project.objects, phase_uuid, file_ref_uuid))

EnsureBuildPhase ==
  \E target_uuid \in TargetArgs, phase_isa \in {S_PBXSourcesBuildPhase, PBXFrameworksBuildPhase} :
    Apply("ensure_build_phase", <<target_uuid>>, phase_isa, StringV(<<>>),
          ensure_build_phase(project.objects, target_uuid, phase_isa))

AddFramework ==
  \E target_uuid \in TargetArgs :
    Apply("add_framework", <<target_uuid>>, S_UIKit, StringV(<<>>),
          add_framework(project.objects, target_uuid, S_UIKit))

AddDependency ==
  \E target_uuid \in TargetArgs, depends_on_uuid \in TargetArgs :
    Apply("add_dependency", <<target_uuid, depends_on_uuid>>, <<>>, StringV(<<>>),
          add_dependency(project.objects, project.root_object_uuid, target_uuid,
                         depends_on_uuid))

EmbedExtension ==
  \E host_target_uuid \in TargetArgs, extension_target_uuid \in TargetArgs :
    Apply("embed_extension", <<host_target_uuid, extension_target_uuid>>, <<>>, StringV(<<>>),
          embed_extension(project.objects, host_target_uuid, extension_target_uuid))

AddFileSystemSyncGroup ==
  \E target_uuid \in TargetArgs :
    Apply("add_file_system_sync_group", <<target_uuid>>, S_Src, StringV(<<>>),
          add_file_system_sync_group(project.objects, project.root_object_uuid,
                                     target_uuid, S_Src))

CreateNativeTarget ==
  \E name \in {S_New}, product_type \in {S_Application, S_Tool} :
    Apply("create_native_target", <<>>, name, StringV(S_com_x),
          create_native_target(project.objects, project.root_object_uuid, name,
                               product_type, S_com_x))

\* XcodeProject::to_plist: the five root keys in order, every object as
\* its property map
to_plist(p) ==
  ObjectV(<<Entry(K_archiveVersion, IntegerV(p.archive_version)),
            Entry(K_classes, ObjectV(p.classes)),
            Entry(K_objectVersion, IntegerV(p.object_version)),
            Entry(K_objects,
                  ObjectV([i \in 1..Len(p.objects) |->
                             Entry(p.objects[i].key, ObjectV(p.objects[i].value.props))])),
            Entry(K_rootObject, StringV(p.root_object_uuid))>>)

\* to_pbxproj: the text of the project, or no return when the comment
\* resolver recurses without end
ToPbxproj ==
  /\ lpc = "loaded"
  /\ IF create_reference_list(to_plist(project)).ok
     THEN built' = build(to_plist(project)) /\ lpc' = "written"
     ELSE built' = built /\ lpc' = "write_overflow"
  /\ UNCHANGED <<plist, project, before, call, ops>>
  /\ UNCHANGED <<input, pc, parsed, reparsed, rebuilt>>
  /\ UNCHANGED textVars

NextProj ==
  \/ Load
  \/ CreateObject
  \/ DeleteObject
  \/ RemoveObject
  \/ SetBuildSetting
  \/ RemoveBuildSetting
  \/ SetObjectProperty
  \/ SetTargetName
  \/ RenameTarget
  \/ AddFile
  \/ AddGroup
  \/ AddBuildFile
  \/ EnsureBuildPhase
  \/ AddFramework
  \/ AddDependency
  \/ EmbedExtension
  \/ AddFileSystemSyncGroup
  \/ CreateNativeTarget
  \/ ToPbxproj

SpecProj == InitProj /\ [][NextProj]_vars

\* ------------------------------------------------------------------------
\* Project facade: properties
\* ------------------------------------------------------------------------

\* The strings a value holds as scalar or as array element.
HeldStrings(value) ==
  CASE value.t = "String" -> {value.s}
    [] value.t = "Array" -> StringsOf(value.items)
    [] OTHER -> {}

\* The (referrer, isa, property, string) records of the strings that the
\* objects hold under the reference keys of their isa.
HeldReferences(objects) ==
  UNION { UNION { { OrphanedReference(objects[i].key, objects[i].value.isa,
                                      objects[i].value.props[j].key, s) :
                    s \in HeldStrings(objects[i].value.props[j].value) } :
                  j \in { n \in 1..Len(objects[i].value.props) :
                            IsReferenceKey(objects[i].value.isa,
                                           objects[i].value.props[n].key) } } :
          i \in 1..Len(objects) }

\* C5: after remove_object(U) returns, get_referrers(U) is the empty
\* sequence: no object holds U as scalar or array element under a reference
\* key of its isa.
C5_RemovedObjectHasNoReferrers ==
  call.op = "remove_object" =>
    /\ get_referrers(project.objects, call.uuids[1]) = <<>>
    /\ \A r \in HeldReferences(project.objects) : r.orphan_uuid # call.uuids[1]

\* The target's buildConfigurationList resolves to a configuration list
\* with a non-empty buildConfigurations array.
HasNonEmptyConfigurationList(objects, target_uuid) ==
  /\ IsSome(ConfigListOf(objects, target_uuid))
  /\ IsSome(GetArray(Unwrap(ConfigListOf(objects, target_uuid)).props, K_buildConfigurations))
  /\ Unwrap(GetArray(Unwrap(ConfigListOf(objects, target_uuid)).props,
                     K_buildConfigurations)) # <<>>

\* C6: for a target whose configuration list has a non-empty
\* buildConfigurations array, after set_build_setting(T, K, V),
\* get_build_setting(T, K) returns V.
C6_SetThenGetBuildSetting ==
  (call.op = "set_build_setting" /\ HasNonEmptyConfigurationList(before, call.uuids[1])) =>
    get_build_setting(project.objects, call.uuids[1], call.key) = Some(call.value)

\* The seed followed by k spaces.
Padded(seed, k) == seed \o [i \in 1..k |-> 32]

\* C7: create_object returns a uuid that was no key of the table before the
\* call, the candidate of the seed followed by the least number of spaces
\* for which the candidate was free; the table gains exactly one entry,
\* appended last, and the entries that were present are unchanged.
C7_CreateObjectAppendsFreshUuid ==
  call.op = "create_object" =>
    /\ call.ret.kind = "Some"
    /\ call.ret.s \notin MapKeys(before)
    /\ \E k \in 0..Len(before) :
         /\ call.ret.s = make_uuid(Padded(to_json_string(call.value.items), k))
         /\ \A j \in 0..(k - 1) :
              make_uuid(Padded(to_json_string(call.value.items), j)) \in MapKeys(before)
    /\ Len(project.objects) = Len(before) + 1
    /\ SubSeq(project.objects, 1, Len(before)) = before
    /\ project.objects[Len(project.objects)].key = call.ret.s
    /\ project.objects[Len(project.objects)].value.uuid = call.ret.s
    /\ project.objects[Len(project.objects)].value.props = call.value.items

\* A create_object call whose first candidate was taken.
C7_CreateObjectRetried ==
  /\ call.op = "create_object"
  /\ make_uuid(to_json_string(call.value.items)) \in MapKeys(before)
  /\ call.ret.s # make_uuid(to_json_string(call.value.items))

\* The root value is not an Object.
RootNotObject(root) == ~is_object(root)

\* rootObject is missing or not a string.
RootObjectNotString(root) ==
  is_object(root) /\ IsNone(GetStr(root.items, K_rootObject))

\* objects is missing or not an Object.
ObjectsNotObject(root) ==
  is_object(root) /\ IsNone(GetObject(root.items, K_objects))

\* The rootObject uuid is not a key of objects.
RootUuidAbsent(root) ==
  /\ is_object(root)
  /\ IsSome(GetStr(root.items, K_rootObject))
  /\ IsSome(GetObject(root.items, K_objects))
  /\ ~MapHas(Unwrap(GetObject(root.items, K_objects)), Unwrap(GetStr(root.items, K_rootObject)))

\* The entry of objects that rootObject names is not an Object.
RootEntryNotObject(root) ==
  /\ is_object(root)
  /\ IsSome(GetStr(root.items, K_rootObject))
  /\ IsSome(GetObject(root.items, K_objects))
  /\ MapHas(Unwrap(GetObject(root.items, K_objects)), Unwrap(GetStr(root.items, K_rootObject)))
  /\ IsNone(GetObject(Unwrap(GetObject(root.items, K_objects)),
                      Unwrap(GetStr(root.items, K_rootObject))))

\* The object rootObject names has an isa other than PBXProject.
RootIsaNotProject(root) ==
  /\ is_object(root)
  /\ IsSome(GetStr(root.items, K_rootObject))
  /\ IsSome(GetObject(root.items, K_objects))
  /\ IsSome(GetObject(Unwrap(GetObject(root.items, K_objects)),
                      Unwrap(GetStr(root.items, K_rootObject))))
  /\ GetStr(Unwrap(GetObject(Unwrap(GetObject(root.items, K_objects)),
                             Unwrap(GetStr(root.items, K_rootObject)))), K_isa)
       # Some(PBXProject)

\* C8: find_orphaned_references returns a record (referrer_uuid,
\* referrer_isa, property, orphan_uuid) if and only if the object holds,
\* under a reference key of its isa, a non-empty string that is no key of
\* the table; it reports no uuid that is a key; a project with dangling
\* references loads.
C8_OrphansAreExactlyDanglingReferences ==
  /\ lpc = "loaded" =>
       /\ Range(find_orphaned_references(project.objects)) =
            { r \in HeldReferences(project.objects) :
                r.orphan_uuid # <<>> /\ ~MapHas(project.objects, r.orphan_uuid) }
       /\ \A r \in Range(find_orphaned_references(project.objects)) :
            r.orphan_uuid \notin MapKeys(project.objects)
  /\ lpc = "load_error" =>
       \/ RootNotObject(plist)
       \/ RootObjectNotString(plist)
       \/ ObjectsNotObject(plist)
       \/ RootUuidAbsent(plist)
       \/ RootEntryNotObject(plist)
       \/ RootIsaNotProject(plist)

\* A loaded project that holds a dangling reference, a blank reference and
\* a reference to a present object, with the dangling one reported.
C8_DanglingReferenceReported ==
  /\ lpc = "loaded"
  /\ find_orphaned_references(project.objects) # <<>>
  /\ \E r \in HeldReferences(project.objects) : r.orphan_uuid = <<>>
  /\ \E r \in HeldReferences(project.objects) : MapHas(project.objects, r.orphan_uuid)

\* The facade mutators that report a missing uuid by their result.
FacadeMutators ==
  {"add_file", "add_group", "add_build_file", "ensure_build_phase", "add_framework",
   "add_dependency", "embed_extension", "add_file_system_sync_group",
   "set_build_setting", "remove_build_setting", "set_object_property",
   "set_target_name", "rename_target"}

\* C9: when a uuid given to a facade mutator is no key of the table, the
\* call returns false or None and the table is what it was before the call.
C9_MissingUuidLeavesTableUnchanged ==
  (/\ call.op \in FacadeMutators
   /\ \E i \in 1..Len(call.uuids) : ~MapHas(before, call.uuids[i])) =>
    /\ call.ret.kind \in {"false", "None"}
    /\ project.objects = before

\* C10: from_plist_value returns an error and no project when the root is
\* not an Object, rootObject is missing or not a string, the rootObject
\* uuid is no key of objects, or the object it names has an isa other than
\* PBXProject; when it returns a project, root_object() is present with isa
\* PBXProject.
C10_LoadValidatesRootObject ==
  /\ (/\ lpc # "start"
      /\ \/ RootNotObject(plist)
         \/ RootObjectNotString(plist)
         \/ RootUuidAbsent(plist)
         \/ RootIsaNotProject(plist)) =>
       (lpc = "load_error" /\ project = NoProject)
  /\ (lpc = "loaded" /\ ops = 0) =>
       /\ IsSome(root_object(project))
       /\ Unwrap(root_object(project)).isa = PBXProject

\* A document whose rootObject names no object of the table was rejected.
C10_AbsentRootRejected ==
  lpc = "load_error" /\ RootUuidAbsent(plist) /\ ~RootIsaNotProject(plist)

\* a <= b for two all-digit strings without leading zeros.
DecimalLeq(a, b) ==
  \/ Len(a) < Len(b)
  \/ /\ Len(a) = Len(b)
     /\ \A i \in 1..Len(a) : (\A j \in 1..(i - 1) : a[j] = b[j]) => a[i] <= b[i]

\* The literal is sign, digits, '.', digits, each run of digits of at
\* least lo_int and lo_frac digits, and has a digit.
IsSignedDecimal(literal, lo_int, lo_frac) ==
  \E sign \in {0, 1} : \E dot \in (sign + 1)..Len(literal) :
    /\ sign = 1 => literal[1] \in {43, 45}
    /\ literal[dot] = 46
    /\ \A i \in ((sign + 1)..Len(literal)) \ {dot} : IsDigit(literal[i])
    /\ dot - 1 - sign >= lo_int
    /\ Len(literal) - dot >= lo_frac
    /\ Len(literal) - sign > 1

\* The value the rules of atom type inference give, in order; a decimal
\* has at least lo_int digits before the '.' and lo_frac after it.
InferredByRules(literal, lo_int, lo_frac) ==
  IF Len(literal) > 1 /\ literal[1] = 48 /\ AllOf(literal, IsDigit) THEN StringV(literal)
  ELSE IF AllOf(literal, IsDigit)
  THEN (IF DecimalLeq(literal, MAX_SAFE_INTEGER) THEN IntegerV(literal) ELSE StringV(literal))
  ELSE IF IsSignedDecimal(literal, lo_int, lo_frac) /\ literal[Len(literal)] # 48
  THEN ParseFloat(literal)
  ELSE StringV(literal)

\* parse gave the object { a = value; }
ParsedAs(key, value) == parsed = [ok |-> TRUE, val |-> ObjectV(<<Entry(key, value)>>)]

\* Every literal of the inputs is read as the rules say.
AtomsFollowRules(lo_int, lo_frac) ==
  pc # "start" =>
    /\ \A l \in AtomLiterals :
         input = AtomDocument(l) => ParsedAs(<<97>>, InferredByRules(l, lo_int, lo_frac))
    /\ \A l \in QuotedLiterals :
         /\ input = QuotedDocument(l) => ParsedAs(<<97>>, StringV(l))
         /\ input = KeyDocument(l) => ParsedAs(l, StringV(<<97>>))

\* No Integer of the parsed value is outside [0, 2^53 - 1].
IntegersAreSafe ==
  (pc # "start" /\ parsed.ok /\ parsed.val.t = "Object") =>
    \A i \in 1..Len(parsed.val.items) :
      parsed.val.items[i].value.t = "Integer" =>
        /\ AllOf(parsed.val.items[i].value.s, IsDigit)
        /\ DecimalLeq(parsed.val.items[i].value.s, MAX_SAFE_INTEGER)

\* C12 as stated: type inference on an unquoted literal gives (1) String
\* for a literal of several digits with a leading '0'; (2) Integer for an
\* all-digit literal up to 2^53 - 1 and String for a larger one; (3) Float
\* for sign, digits, '.', digits not ending in '0'; (4) String otherwise;
\* no Integer is outside [0, 2^53 - 1]; quoted strings and keys are not
\* inferred.
C12_AtomInferenceDigitsOnBothSides == AtomsFollowRules(1, 1) /\ IntegersAreSafe

\* C12 amended: as stated, but in rule (3) the digits before the '.' or
\* the digits after it may be missing, not both: `5.` and `.5` are Floats.
C12_AtomInference == AtomsFollowRules(0, 0) /\ IntegersAreSafe

\* 2^53 was read and is a String, and is not an Integer.
C12_PastSafeIntegerRead ==
  /\ pc # "start"
  /\ input = AtomDocument(S_MaxSafePlusOne)
  /\ ParsedAs(<<97>>, StringV(S_MaxSafePlusOne))

\* build has returned the text of the parsed value.
WasBuilt == pc \in {"built", "reparsed", "reparse_error", "rebuilt", "rebuild_overflow"}

\* The pattern occurs in the text.
Occurs(pattern, text) == MatchPositions(text, pattern) # {}

\* The objects the writer writes for a root: the root and the Objects of
\* its objects table, each with its isa when it has one.
WrittenObjects(root) ==
  { [isa |-> None, items |-> root.items] }
  \cup { [isa |-> GetStr(e.value.items, K_isa), items |-> e.value.items] :
         e \in { x \in Range(UnwrapOrDefault(GetObject(root.items, K_objects))) :
                   is_object(x.value) } }

\* The key forces the decimal form: no lowercase letter, and one of the
\* three endings.
ForcesDecimal(key) ==
  /\ \A i \in 1..Len(key) : ~(key[i] >= 97 /\ key[i] <= 122)
  /\ \E ending \in {S_SWIFT_VERSION, S_MARKETING_VERSION, S_DEPLOYMENT_TARGET} :
       EndsWith(key, ending)

\* An Integer, or a Float whose fractional part is zero.
IsWholeNumber(value) ==
  value.t = "Integer" \/ (value.t = "Float" /\ value.f = <<>>)

\* key = n.0; is in the text for every whole number n that an object of
\* the given kind holds under a key that forces the decimal form.
DecimalFormWritten(inline) ==
  (WasBuilt /\ parsed.val.t = "Object") =>
    \A o \in WrittenObjects(parsed.val) :
      IsInlineIsa(o.isa) \in inline =>
        \A i \in 1..Len(o.items) :
          (ForcesDecimal(o.items[i].key) /\ IsWholeNumber(o.items[i].value)) =>
            Occurs(o.items[i].key \o S_Assign \o o.items[i].value.s \o S_DotZero \o <<59>>,
                   built)

\* C13: for a key without lowercase letter that ends with SWIFT_VERSION,
\* MARKETING_VERSION or _DEPLOYMENT_TARGET the writer emits an Integer n
\* and a Float n with zero fractional part as n.0, in every object it
\* writes, multi-line or on a single line.
C13_FloatKeysWrittenInDecimalForm == DecimalFormWritten({TRUE, FALSE})

\* The same for the objects written on several lines only.
FloatKeysInMultiLineObjects == DecimalFormWritten({FALSE})

\* The uuid of the product reference of a target, none when it has none.
ProductOf(objects, target_uuid) ==
  GetStr(MapVal(objects, target_uuid).props, K_productReference)

\* The object is a child of the main group and its path is old_name.
IsRenamedChild(objects, root_object_uuid, uuid, old_name) ==
  /\ IsSome(main_group_uuid(objects, root_object_uuid))
  /\ uuid \in get_group_children(objects, Unwrap(main_group_uuid(objects, root_object_uuid)))
  /\ MapHas(objects, uuid)
  /\ GetStr(MapVal(objects, uuid).props, K_path) = Some(old_name)

\* The object is a PBXContainerItemProxy and its remoteInfo is old_name.
IsRenamedProxy(obj, old_name) ==
  obj.isa = PBXContainerItemProxy /\ GetStr(obj.props, K_remoteInfo) = Some(old_name)

\* The properties that rename_target is to change.
IsRenamedProperty(objects, root_object_uuid, target_uuid, old_name, uuid, key) ==
  \/ uuid = target_uuid /\ key \in {K_name, K_productName}
  \/ Some(uuid) = ProductOf(objects, target_uuid) /\ key = K_path
  \/ IsRenamedChild(objects, root_object_uuid, uuid, old_name) /\ key \in {K_path, K_name}
  \/ IsRenamedProxy(MapVal(objects, uuid), old_name) /\ key = K_remoteInfo

\* The table after has the objects of the table before, and each object
\* its properties, but for the values of the properties to change and for
\* name and productName of the target, which may be new.
RenameKeepsTheRest(objects, after, root_object_uuid, target_uuid, old_name) ==
  /\ Len(after) = Len(objects)
  /\ \A i \in 1..Len(objects) :
       /\ after[i].key = objects[i].key
       /\ after[i].value.uuid = objects[i].value.uuid
       /\ after[i].value.isa = objects[i].value.isa
       /\ Len(after[i].value.props) >= Len(objects[i].value.props)
       /\ \A j \in 1..Len(after[i].value.props) :
            IF j <= Len(objects[i].value.props)
            THEN /\ after[i].value.props[j].key = objects[i].value.props[j].key
                 /\ \/ after[i].value.props[j].value = objects[i].value.props[j].value
                    \/ IsRenamedProperty(objects, root_object_uuid, target_uuid, old_name,
                                         objects[i].key, objects[i].value.props[j].key)
            ELSE /\ objects[i].key = target_uuid
                 /\ after[i].value.props[j].key \in {K_name, K_productName}

\* What rename_target is to leave, for a target of the table.
Renamed(objects, after, root_object_uuid, target_uuid, old_name, new_name) ==
  /\ GetStr(MapVal(after, target_uuid).props, K_name) = Some(new_name)
  /\ GetStr(MapVal(after, target_uuid).props, K_productName) = Some(new_name)
  /\ \A i \in 1..Len(objects) :
       /\ (/\ Some(objects[i].key) = ProductOf(objects, target_uuid)
           /\ IsSome(GetStr(objects[i].value.props, K_path))) =>
            GetStr(MapVal(after, objects[i].key).props, K_path) =
              Some(replace(Unwrap(GetStr(objects[i].value.props, K_path)), old_name, new_name))
       /\ IsRenamedChild(objects, root_object_uuid, objects[i].key, old_name) =>
            /\ GetStr(MapVal(after, objects[i].key).props, K_path) = Some(new_name)
            /\ IsSome(GetStr(objects[i].value.props, K_name)) =>
                 GetStr(MapVal(after, objects[i].key).props, K_name) = Some(new_name)
       /\ IsRenamedProxy(objects[i].value, old_name) =>
            GetStr(MapVal(after, objects[i].key).props, K_remoteInfo) = Some(new_name)

\* C11: for a target of the table, rename_target(T, old, new) returns true
\* and leaves name and productName of T equal to new, the path of the
\* product reference with every occurrence of old replaced by new, every
\* child of the main group whose path was old with path new (and name new
\* if it had a name), every PBXContainerItemProxy whose remoteInfo was old
\* with remoteInfo new, and everything else unchanged.
C11_RenameTargetCascades ==
  (call.op = "rename_target" /\ MapHas(before, call.uuids[1])) =>
    /\ call.ret.kind = "true"
    /\ RenameKeepsTheRest(before, project.objects, project.root_object_uuid,
                          call.uuids[1], call.key)
    /\ Renamed(before, project.objects, project.root_object_uuid,
               call.uuids[1], call.key, call.value.s)

\* ------------------------------------------------------------------------
\* Escape codec round trip
\* ------------------------------------------------------------------------

\* The greatest length of the strings handed to the codec.
MaxTokenLen == 2

\* NUL, 0x01, the seven named controls, ESC, 0x1f, space, the two quotes,
\* '-', '0', 'U', backslash, 'a', 'n', DEL, e with acute accent, em dash
TokenAlphabet ==
  {0, 1, 7, 8, 9, 10, 11, 12, 13, 27, 31, 32, 34, 39, 45, 48, 85, 92, 97, 110, 127,
   233, 8212}

TextInputs == UNION { [1..n -> TokenAlphabet] : n \in 0..MaxTokenLen }

InitText ==
  /\ token \in TextInputs
  /\ tpc = "start"
  /\ encoded = Encoded(<<>>, <<>>, <<>>)
  /\ decoded = <<>>
  /\ lookup = <<>>
  /\ RTIdle
  /\ ProjIdle

\* add_quotes(token), ensure_quotes(token) and what write_ensure_quotes_to
\* appends for the token
Encode ==
  /\ tpc = "start"
  /\ encoded' = Encoded(add_quotes(token), ensure_quotes(token), write_ensure_quotes_to(token))
  /\ tpc' = "encoded"
  /\ UNCHANGED <<token, decoded, lookup>>
  /\ UNCHANGED rtVars
  /\ UNCHANGED projVars

\* unescape_string(add_quotes(token))
Decode ==
  /\ tpc = "encoded"
  /\ decoded' = unescape_string(encoded.escaped)
  /\ tpc' = "decoded"
  /\ UNCHANGED <<token, encoded, lookup>>
  /\ UNCHANGED rtVars
  /\ UNCHANGED projVars

NextText == Encode \/ Decode

SpecText == InitText /\ [][NextText]_vars

\* ------------------------------------------------------------------------
\* Quoting discipline
\* ------------------------------------------------------------------------

WasEncoded == tpc \in {"encoded", "decoded"}

\* The token as the quoting discipline has it: as it is when it is safe,
\* escaped between double quotes otherwise.
QuotedUnlessSafe(value) ==
  IF is_safe_unquoted(value) THEN value ELSE <<34>> \o add_quotes(value) \o <<34>>

\* The two implementations give the same text, the one the discipline names.
EnsureQuotesAgree ==
  WasEncoded => (encoded.ensured = encoded.written /\ encoded.written = QuotedUnlessSafe(token))

\* The ids of the Objects in the objects table of a root.
WrittenIds(root) ==
  { e.key : e \in { x \in Range(UnwrapOrDefault(GetObject(root.items, K_objects))) :
                      is_object(x.value) } }

\* Every object of the table starts its entry with its id, as it is when
\* it is safe and escaped between double quotes otherwise.
IdsQuotedUnlessSafe ==
  (WasBuilt /\ parsed.val.t = "Object") =>
    \A id \in WrittenIds(parsed.val) :
      Occurs(<<9, 9>> \o QuotedUnlessSafe(id) \o <<32>>, built)

\* C14: every key or scalar token the writer emits is written without
\* quotes exactly when it is non-empty and made of ASCII letters, digits,
\* '_', '$', '/', ':' and '.', and otherwise between double quotes with its
\* content escaped; ensure_quotes and write_ensure_quotes_to give the same
\* text for every input.
C14_QuotedUnlessSafe == EnsureQuotesAgree /\ IdsQuotedUnlessSafe

\* ------------------------------------------------------------------------
\* Annotations of the written project
\* ------------------------------------------------------------------------

WasWritten == lpc = "written"

\* The annotation the writer has for an id of the project, <<>> when none.
AnnotationOf(id) ==
  IF HasComment(create_reference_list(to_plist(project)).map, id)
  THEN MapVal(create_reference_list(to_plist(project)).map, id)
  ELSE <<>>

\* id, its annotation between comment marks, and " = " are in the text.
WrittenWithAnnotation(id) ==
  Occurs(id \o S_CommentOpen \o AnnotationOf(id) \o S_CommentClose \o S_Assign, built)

\* The configuration lists that no object names under buildConfigurationList.
UnownedConfigurationLists ==
  { e.key : e \in { x \in Range(project.objects) :
                      /\ x.value.isa = XCConfigurationList
                      /\ \A o \in Range(project.objects) :
                           GetStr(o.value.props, K_buildConfigurationList) # Some(x.key) } }

\* The remoteInfo strings of the proxies whose containerPortal is the id.
ProxyNamesOf(id) ==
  { Unwrap(GetStr(o.value.props, K_remoteInfo)) :
      o \in { x \in Range(project.objects) :
                /\ x.value.isa = PBXContainerItemProxy
                /\ GetStr(x.value.props, K_containerPortal) = Some(id)
                /\ IsSome(GetStr(x.value.props, K_remoteInfo)) } }

\* C15: an XCConfigurationList that no object references through
\* buildConfigurationList, but for which a PBXContainerItemProxy exists
\* with containerPortal the list and remoteInfo "SubApp", is written with
\* the annotation `Build configuration list for <isa> "SubApp"`.
C15_ConfigurationListNamedByProxy ==
  WasWritten =>
    \A id \in UnownedConfigurationLists :
      ProxyNamesOf(id) # {} =>
        /\ WrittenWithAnnotation(id)
        /\ StartsWith(AnnotationOf(id), S_ConfigListFor)
        /\ \E name \in ProxyNamesOf(id) : EndsWith(AnnotationOf(id), <<32, 34>> \o name \o <<34>>)

\* ------------------------------------------------------------------------
\* Escape round trip
\* ------------------------------------------------------------------------

\* "0123456789abcdef"
LowerHexDigits == <<48, 49, 50, 51, 52, 53, 54, 55, 56, 57, 97, 98, 99, 100, 101, 102>>

\* The escape stated for one character: the letter of a named control,
\* \U and four lowercase hex digits for another control below 0x20, a
\* backslash before a double quote and a backslash, the character itself
\* otherwise.
StatedEscape(c) ==
  IF c = 10 THEN <<92, 110>>
  ELSE IF c = 7 THEN <<92, 97>>
  ELSE IF c = 8 THEN <<92, 98>>
  ELSE IF c = 12 THEN <<92, 102>>
  ELSE IF c = 13 THEN <<92, 114>>
  ELSE IF c = 9 THEN <<92, 116>>
  ELSE IF c = 11 THEN <<92, 118>>
  ELSE IF c < 32
    THEN <<92, 85, 48, 48, LowerHexDigits[(c \div 16) + 1], LowerHexDigits[(c % 16) + 1]>>
  ELSE IF c \in {34, 92} THEN <<92, c>>
  ELSE <<c>>

RECURSIVE StatedEscapes(_)
StatedEscapes(s) ==
  IF s = <<>> THEN <<>> ELSE StatedEscape(Head(s)) \o StatedEscapes(Tail(s))

\* C16: for every string s over printable characters, controls below 0x20,
\* double quote, apostrophe and backslash, unescape_string(add_quotes(s))
\* is s; add_quotes writes newline as \n, the named controls as \a \b \f
\* \r \t \v, any other control below 0x20 as \U and four lowercase hex
\* digits, and leaves the characters above 0x7F as they are.
C16_EscapeRoundTrip ==
  /\ WasEncoded => encoded.escaped = StatedEscapes(token)
  /\ tpc = "decoded" => decoded = token

\* ESC before a hex digit went through the codec: \U001b and then 0.
C16_ControlBeforeHexDigitDecoded ==
  /\ tpc = "decoded"
  /\ token = <<27, 48>>
  /\ encoded.escaped = <<92, 85, 48, 48, 49, 98, 48>>

\* ------------------------------------------------------------------------
\* Key order
\* ------------------------------------------------------------------------

\* The greatest number of items of a document with repeated keys.
MaxDupItems == 3

\* 'a', 'b' and 'c'
DupKeys == {97, 98, 99}

DupKeySeqs == UNION { [1..n -> DupKeys] : n \in 1..MaxDupItems }

RECURSIVE DupBody(_, _)
\* The items from the i-th on: the i-th key is given the digit i.
DupBody(ks, i) ==
  IF i > Len(ks) THEN <<>>
  ELSE <<ks[i]>> \o S_Assign \o <<48 + i, 59, 32>> \o DupBody(ks, i + 1)

\* { k1 = 1; k2 = 2; k3 = 3; }
DupDocument(ks) == <<123, 32>> \o DupBody(ks, 1) \o <<125>>

RTDuplicateDocuments == { DupDocument(ks) : ks \in DupKeySeqs }

InitOrder ==
  \/ /\ input \in RTDuplicateDocuments
     /\ pc = "start"
     /\ parsed = NoResult
     /\ built = <<>>
     /\ reparsed = NoResult
     /\ rebuilt = <<>>
     /\ ProjIdle
     /\ TextIdle
  \/ InitProj

NextOrder == NextRT \/ NextProj

\* A document with repeated keys goes through the round trip, or a project
\* is loaded and changed through the facade.
SpecOrder == InitOrder /\ [][NextOrder]_vars

\* The keys of a map in their order.
KeySeq(m) == [i \in 1..Len(m) |-> m[i].key]

\* The key order after a key is set: as before when the key is present,
\* the key last otherwise.
KeysAfterSet(keys, k) ==
  IF \E i \in 1..Len(keys) : keys[i] = k THEN keys ELSE Append(keys, k)

\* The entries other than the one of key k, in their order.
EntriesWithout(m, k) == SelectSeq(m, LAMBDA e : e.key # k)

\* The entries a document with the keys ks is read as: every key at the
\* place of its first item, with the digit of its last item.
EntriesOfDup(ks) ==
  LET firsts == SelectSeq([i \in 1..Len(ks) |-> i],
                          LAMBDA i : \A j \in 1..(i - 1) : ks[j] # ks[i])
      last(k) == CHOOSE i \in 1..Len(ks) :
                   ks[i] = k /\ \A j \in (i + 1)..Len(ks) : ks[j] # k
  IN [n \in 1..Len(firsts) |->
        Entry(<<ks[firsts[n]]>>, IntegerV(<<48 + last(ks[firsts[n]])>>))]

DuplicateKeepsFirstPosition ==
  \A ks \in DupKeySeqs :
    (input = DupDocument(ks) /\ pc # "start") =>
      (parsed.ok /\ parsed.val = ObjectV(EntriesOfDup(ks)))

\* The entries of m and n are the same but for the value of key k, which
\* is v in n, at its old place or last.
SetAt(m, n, k, v) ==
  /\ KeySeq(n) = KeysAfterSet(KeySeq(m), k)
  /\ \A i \in 1..Len(n) : n[i].value = (IF n[i].key = k THEN v ELSE m[i].value)

SetObjectPropertyKeepsPosition ==
  (call.op = "set_object_property" /\ MapHas(before, call.uuids[1])) =>
    /\ KeySeq(project.objects) = KeySeq(before)
    /\ SetAt(MapVal(before, call.uuids[1]).props,
             MapVal(project.objects, call.uuids[1]).props, call.key, call.value)

\* The ids of the build configurations of the target's list that hold a
\* buildSettings object.
SettingsHolders(objects, target_uuid) ==
  IF IsNone(ConfigListOf(objects, target_uuid)) THEN {}
  ELSE { e.s :
           e \in { x \in Range(UnwrapOrDefault(GetArray(
                                 Unwrap(ConfigListOf(objects, target_uuid)).props,
                                 K_buildConfigurations))) :
                     /\ x.t = "String"
                     /\ MapHas(objects, x.s)
                     /\ IsSome(GetObject(MapVal(objects, x.s).props, K_buildSettings)) } }

SettingsOf(objects, config_uuid) ==
  Unwrap(GetObject(MapVal(objects, config_uuid).props, K_buildSettings))

SetBuildSettingKeepsPosition ==
  call.op = "set_build_setting" =>
    /\ KeySeq(project.objects) = KeySeq(before)
    /\ \A c \in SettingsHolders(before, call.uuids[1]) :
         SetAt(SettingsOf(before, c), SettingsOf(project.objects, c), call.key, call.value)

DeleteObjectKeepsOrder ==
  call.op = "delete_object" => project.objects = EntriesWithout(before, call.uuids[1])

RemoveBuildSettingKeepsOrder ==
  call.op = "remove_build_setting" =>
    /\ KeySeq(project.objects) = KeySeq(before)
    /\ \A c \in SettingsHolders(before, call.uuids[1]) :
         SettingsOf(project.objects, c) = EntriesWithout(SettingsOf(before, c), call.key)

\* C17: object key order is insertion order and overwriting keeps the
\* position: a duplicate key in one object of the text replaces the
\* earlier value at the earlier key's position; set_object_property and
\* set_build_setting on an existing key keep that key's position and a new
\* key is appended last; delete_object and remove_build_setting remove one
\* entry and keep the relative order of all others.
C17_KeyOrderIsInsertionOrder ==
  /\ DuplicateKeepsFirstPosition
  /\ SetObjectPropertyKeepsPosition
  /\ SetBuildSettingKeepsPosition
  /\ DeleteObjectKeepsOrder
  /\ RemoveBuildSettingKeepsOrder

\* A setting was overwritten in a map of two settings and kept the first
\* place.
C17_FirstSettingOverwritten ==
  /\ call.op = "set_build_setting"
  /\ \E c \in SettingsHolders(before, call.uuids[1]) :
       /\ Len(SettingsOf(before, c)) = 2
       /\ SettingsOf(before, c)[1].key = call.key
       /\ SettingsOf(before, c)[1].value # call.value
       /\ SettingsOf(project.objects, c)[1] = Entry(call.key, call.value)

\* ------------------------------------------------------------------------
\* Sections of the objects table
\* ------------------------------------------------------------------------

\* The positions at which a line of the text starts.
LineStarts(text) == {1} \cup { i + 1 : i \in { j \in 1..(Len(text) - 1) : text[j] = 10 } }

\* The lines, by their starts, that begin with the pattern.
LinesWith(text, starts, pattern) ==
  { p \in starts : /\ p + Len(pattern) - 1 <= Len(text)
                   /\ SubSeq(text, p, p + Len(pattern) - 1) = pattern }

\* The lines that open the entry of an id: two tabs, the id as it is or
\* between quotes, a space.
EntryLines(text, starts, id) ==
  LinesWith(text, starts, <<9, 9>> \o id \o <<32>>)
  \cup LinesWith(text, starts, <<9, 9>> \o QuotedUnlessSafe(id) \o <<32>>)

BeginLines(text, starts, isa) ==
  LinesWith(text, starts, S_BeginSection \o isa \o S_SectionTail \o <<10>>)

EndLines(text, starts, isa) ==
  LinesWith(text, starts, S_EndSection \o isa \o S_SectionTail \o <<10>>)

\* The isa an entry is grouped under.
GroupOf(value) == Unwrap(OrElse(GetStr(value.items, K_isa), Some(S_Unknown)))

TheOne(set) == CHOOSE x \in set : TRUE

\* The entries of the table with the given ids are each written once,
\* between the banners of their isa; the banners of each isa are written
\* once, Begin after a blank line; groups ascend by isa and entries of a
\* group ascend by id.
SectionsInOrder(objects, ids, text, starts) ==
  /\ \A id \in ids :
       /\ Cardinality(EntryLines(text, starts, id)) = 1
       /\ Cardinality(BeginLines(text, starts, GroupOf(MapVal(objects, id)))) = 1
       /\ Cardinality(EndLines(text, starts, GroupOf(MapVal(objects, id)))) = 1
  /\ (\A id \in ids : Cardinality(EntryLines(text, starts, id)) = 1
                      /\ Cardinality(BeginLines(text, starts, GroupOf(MapVal(objects, id)))) = 1
                      /\ Cardinality(EndLines(text, starts, GroupOf(MapVal(objects, id)))) = 1) =>
       /\ \A id \in ids :
            /\ TheOne(BeginLines(text, starts, GroupOf(MapVal(objects, id)))) >= 3
            /\ text[TheOne(BeginLines(text, starts, GroupOf(MapVal(objects, id)))) - 2] = 10
            /\ TheOne(BeginLines(text, starts, GroupOf(MapVal(objects, id))))
                 < TheOne(EntryLines(text, starts, id))
            /\ TheOne(EntryLines(text, starts, id))
                 < TheOne(EndLines(text, starts, GroupOf(MapVal(objects, id))))
       /\ \A a \in ids, b \in ids :
            /\ StrLess(GroupOf(MapVal(objects, a)), GroupOf(MapVal(objects, b))) =>
                 TheOne(EndLines(text, starts, GroupOf(MapVal(objects, a))))
                   < TheOne(BeginLines(text, starts, GroupOf(MapVal(objects, b))))
            /\ (GroupOf(MapVal(objects, a)) = GroupOf(MapVal(objects, b)) /\ StrLess(a, b)) =>
                 TheOne(EntryLines(text, starts, a)) < TheOne(EntryLines(text, starts, b))

\* The ids of the objects table of a root: all of them, or those whose
\* value is an Object.
TableIds(root) == MapKeys(objects_of(root))

\* C18: in the objects section the writer emits every entry exactly once,
\* grouped by isa with the groups in ascending byte-wise order of the isa,
\* and inside each group in ascending byte-wise order of the id, whatever
\* the insertion order of the table; each group is preceded by a blank
\* line and its Begin banner and followed by its End banner.
C18_SectionsSortedByIsaThenId ==
  (WasBuilt /\ parsed.val.t = "Object") =>
    SectionsInOrder(objects_of(parsed.val), TableIds(parsed.val), built, LineStarts(built))

\* The same for the entries that are Objects.
ObjectSectionsSorted ==
  (WasBuilt /\ parsed.val.t = "Object") =>
    SectionsInOrder(objects_of(parsed.val), WrittenIds(parsed.val), built, LineStarts(built))

\* The same for the table of a project written by to_pbxproj.
ProjectSectionsSorted ==
  WasWritten =>
    SectionsInOrder(objects_of(to_plist(project)), TableIds(to_plist(project)), built,
                    LineStarts(built))

\* ------------------------------------------------------------------------
\* Annotations of build files
\* ------------------------------------------------------------------------

\* The build was attempted: it returned or it never did.
BuildAttempted == WasBuilt \/ pc = "build_overflow"

\* The ids of the PBXBuildFile objects of a table.
BuildFileIds(objects) ==
  { e.key : e \in { x \in Range(objects) :
                      is_object(x.value) /\ GetStr(x.value.items, K_isa) = Some(PBXBuildFile) } }

\* The build phases of the table whose files hold the id.
PhasesListing(objects, id) ==
  { e.value.items :
      e \in { x \in Range(objects) :
                /\ is_object(x.value)
                /\ EndsWith(UnwrapOrDefault(GetStr(x.value.items, K_isa)), S_BuildPhase)
                /\ StringV(id) \in Range(UnwrapOrDefault(GetArray(x.value.items, K_files))) } }

\* The isa without the PBX before it and the BuildPhase after it.
StrippedIsa(isa) ==
  IF StartsWith(isa, S_PBX) /\ EndsWith(isa, S_BuildPhase) /\ Len(isa) >= 13
  THEN SubSeq(isa, 4, Len(isa) - 10)
  ELSE isa

PhaseNameOf(phase) ==
  IF IsSome(GetStr(phase, K_name)) THEN Unwrap(GetStr(phase, K_name))
  ELSE StrippedIsa(UnwrapOrDefault(GetStr(phase, K_isa)))

\* The id under fileRef, else under productRef.
RefIdOf(build_file) ==
  IF IsSome(GetStr(build_file, K_fileRef)) THEN GetStr(build_file, K_fileRef)
  ELSE GetStr(build_file, K_productRef)

\* The annotation of the object the build file names, or (null).
RefNameOf(build_file, objects, comments) ==
  IF /\ IsSome(RefIdOf(build_file))
     /\ MapHas(objects, Unwrap(RefIdOf(build_file)))
     /\ MapHas(comments, Unwrap(RefIdOf(build_file)))
  THEN MapVal(comments, Unwrap(RefIdOf(build_file)))
  ELSE S_Null

\* The comment map holds, for every build file, the name of what it
\* refers to, " in ", and the name of a phase that lists it.
BuildFilesAnnotated(objects, comments) ==
  \A id \in BuildFileIds(objects) :
    /\ MapHas(comments, id)
    /\ MapHas(comments, id) =>
         IF PhasesListing(objects, id) = {}
         THEN MapVal(comments, id)
                = RefNameOf(MapVal(objects, id).items, objects, comments)
                  \o S_In \o S_MissingBuildPhase
         ELSE \E phase \in PhasesListing(objects, id) :
                MapVal(comments, id)
                  = RefNameOf(MapVal(objects, id).items, objects, comments)
                    \o S_In \o PhaseNameOf(phase)

\* C19: for every PBXBuildFile B the comment map holds
\* `<ref_name> in <phase_name>`: ref_name is the annotation of the object
\* named by fileRef (else productRef), or (null) when that key is absent or
\* names no object; phase_name is the name of the build phase whose files
\* contain B, else that phase's isa without PBX and BuildPhase, or
\* [missing build phase] when no build phase lists B.
C19_BuildFileAnnotation ==
  (BuildAttempted /\ parsed.val.t = "Object") =>
    /\ create_reference_list(parsed.val).ok
    /\ create_reference_list(parsed.val).ok =>
         BuildFilesAnnotated(objects_of(parsed.val), create_reference_list(parsed.val).map)

\* The same where the comment map was made.
BuildFilesAnnotatedWhenMade ==
  (WasBuilt /\ parsed.val.t = "Object") =>
    BuildFilesAnnotated(objects_of(parsed.val), create_reference_list(parsed.val).map)

\* The same for the table of a project written by to_pbxproj.
ProjectBuildFilesAnnotated ==
  WasWritten =>
    BuildFilesAnnotated(objects_of(to_plist(project)),
                        create_reference_list(to_plist(project)).map)

\* ------------------------------------------------------------------------
\* ensure_build_phase
\* ------------------------------------------------------------------------

\* The ids that the target lists in buildPhases, in order, whose object
\* has the isa.
ListedPhases(objects, target_uuid, phase_isa) ==
  IF ~MapHas(objects, target_uuid) THEN <<>>
  ELSE SelectSeq(UnwrapOrDefault(GetArray(MapVal(objects, target_uuid).props, K_buildPhases)),
                 LAMBDA v : /\ v.t = "String"
                            /\ MapHas(objects, v.s)
                            /\ MapVal(objects, v.s).isa = phase_isa)

\* The properties of a created phase.
NewPhaseProps(phase_isa) ==
  <<Entry(K_isa, StringV(phase_isa)),
    Entry(K_buildActionMask, IntegerV(<<50, 49, 52, 55, 52, 56, 51, 54, 52, 55>>)),
    Entry(K_files, ArrayV(<<>>)),
    Entry(K_runOnlyForDeploymentPostprocessing, IntegerV(<<48>>))>>

\* The table a after the table b gained the phase u of the target t: one
\* entry more, last, and u last in the buildPhases of t.
PhaseCreated(b, a, t, u, phase_isa) ==
  /\ Len(a) = Len(b) + 1
  /\ a[Len(a)].key = u
  /\ a[Len(a)].value.props = NewPhaseProps(phase_isa)
  /\ MapHas(b, t)
  /\ \A i \in 1..Len(b) :
       /\ a[i].key = b[i].key
       /\ a[i].key # t => a[i] = b[i]
       /\ a[i].key = t =>
            /\ KeySeq(a[i].value.props) = KeySeq(b[i].value.props)
            /\ \A j \in 1..Len(b[i].value.props) :
                 IF b[i].value.props[j].key = K_buildPhases
                 THEN /\ b[i].value.props[j].value.t = "Array"
                      /\ a[i].value.props[j].value
                           = ArrayV(Append(b[i].value.props[j].value.items, StringV(u)))
                 ELSE a[i].value.props[j] = b[i].value.props[j]
            /\ \E j \in 1..Len(b[i].value.props) : b[i].value.props[j].key = K_buildPhases

\* C20: ensure_build_phase(T, P) is find-or-create: when T lists a phase
\* of isa P in buildPhases it returns that phase's uuid and changes
\* nothing; otherwise it creates one phase (buildActionMask 2147483647,
\* empty files, runOnlyForDeploymentPostprocessing 0), appends its uuid to
\* T.buildPhases and returns it; a second ensure_build_phase(T, P) returns
\* the same uuid and leaves the project unchanged.
C20_EnsureBuildPhaseFindsOrCreates ==
  call.op = "ensure_build_phase" =>
    /\ call.ret.kind = "Some"
    /\ IF ListedPhases(before, call.uuids[1], call.key) # <<>>
       THEN /\ call.ret.s = ListedPhases(before, call.uuids[1], call.key)[1].s
            /\ project.objects = before
       ELSE /\ ~MapHas(before, call.ret.s)
            /\ PhaseCreated(before, project.objects, call.uuids[1], call.ret.s, call.key)
    /\ ensure_build_phase(project.objects, call.uuids[1], call.key)
         = Outcome(call.ret, project.objects)

\* The same for a target that is in the table and holds a buildPhases array.
EnsureBuildPhaseOnTargetWithPhases ==
  (/\ call.op = "ensure_build_phase"
   /\ MapHas(before, call.uuids[1])
   /\ IsSome(GetArray(MapVal(before, call.uuids[1]).props, K_buildPhases))) =>
    /\ call.ret.kind = "Some"
    /\ IF ListedPhases(before, call.uuids[1], call.key) # <<>>
       THEN /\ call.ret.s = ListedPhases(before, call.uuids[1], call.key)[1].s
            /\ project.objects = before
       ELSE /\ ~MapHas(before, call.ret.s)
            /\ PhaseCreated(before, project.objects, call.uuids[1], call.ret.s, call.key)
    /\ ensure_build_phase(project.objects, call.uuids[1], call.key)
         = Outcome(call.ret, project.objects)

\* ------------------------------------------------------------------------
\* Default configuration
\* ------------------------------------------------------------------------

\* A build configuration: isa, buildSettings when given, name when given.
SettingsConfiguration(settings, name) ==
  <<Entry(K_isa, StringV(XCBuildConfiguration))>>
  \o (IF IsSome(settings) THEN <<Entry(K_buildSettings, ObjectV(Unwrap(settings)))>> ELSE <<>>)
  \o (IF IsSome(name) THEN <<Entry(K_name, StringV(Unwrap(name)))>> ELSE <<>>)

\* A project of one target T whose list L holds the given configurations
\* and the given defaultConfigurationName, with the configurations C and D.
SettingsProject(default_name, configs, c_props, d_props) ==
  ObjectV(<<Entry(K_objects, ObjectV(<<
      Entry(ID_R, ObjectV(<<Entry(K_isa, StringV(PBXProject)),
        Entry(K_targets, ArrayV(<<StringV(ID_T)>>))>>)),
      Entry(ID_T, ObjectV(<<Entry(K_isa, StringV(PBXNativeTarget)),
        Entry(K_buildConfigurationList, StringV(ID_L)),
        Entry(K_name, StringV(S_App))>>)),
      Entry(ID_L, ObjectV(<<Entry(K_isa, StringV(XCConfigurationList)),
        Entry(K_buildConfigurations, ArrayV(configs))>>
        \o (IF IsSome(default_name)
            THEN <<Entry(K_defaultConfigurationName, StringV(Unwrap(default_name)))>>
            ELSE <<>>))),
      Entry(ID_C, ObjectV(c_props)),
      Entry(ID_D, ObjectV(d_props))>>)),
    Entry(K_rootObject, StringV(ID_R))>>)

SettingsInputs ==
  { SettingsProject(default_name, configs,
                    SettingsConfiguration(c_settings, Some(c_name)),
                    SettingsConfiguration(Some(d_settings), d_name)) :
      default_name \in {None, Some(S_Debug), Some(S_Release), Some(S_x)},
      configs \in { <<StringV(ID_C), StringV(ID_D)>>, <<StringV(ID_D), StringV(ID_C)>>,
                    <<>>, <<StringV(ID_MISSING), StringV(ID_C)>> },
      c_settings \in {None, Some(<<Entry(S_K, StringV(S_v))>>)},
      c_name \in {S_Debug, S_Release},
      d_settings \in { <<>>, <<Entry(S_K, StringV(S_w))>> },
      d_name \in {None, Some(S_Debug), Some(S_Release)} }

InitSettings ==
  /\ plist \in SettingsInputs
  /\ lpc = "start"
  /\ project = NoProject
  /\ before = <<>>
  /\ call = NoCall
  /\ ops = 0
  /\ RTIdle
  /\ TextIdle

\* What a getter returned: the value when there is one.
Got(op, uuid, key, result) ==
  Call(op, <<uuid>>, key, IF IsSome(result) THEN Unwrap(result) ELSE StringV(<<>>),
       IF IsSome(result) THEN RetSome(<<>>) ELSE RetNone)

\* get_build_setting(target_uuid, key); the project is read only.
GetBuildSetting ==
  \E target_uuid \in TargetArgs, key \in {S_K, S_N} :
    /\ lpc = "loaded"
    /\ call.op = "none"
    /\ call' = Got("get_build_setting", target_uuid, key,
                   get_build_setting(project.objects, target_uuid, key))
    /\ UNCHANGED <<plist, lpc, project, before, ops>>
    /\ UNCHANGED rtVars
    /\ UNCHANGED textVars

NextSettings == Load \/ GetBuildSetting

SpecSettings == InitSettings /\ [][NextSettings]_vars

\* The configurations of the list as it is written: the String elements
\* of buildConfigurations.
ListedConfigurations(objects, list_uuid) ==
  UnwrapOrDefault(GetArray(MapVal(objects, list_uuid).props, K_buildConfigurations))

\* The element names a configuration of the given name.
NamesConfiguration(objects, element, name) ==
  /\ element.t = "String"
  /\ MapHas(objects, element.s)
  /\ GetStr(MapVal(objects, element.s).props, K_name) = name

\* The configuration that is the default of the list: the first one named
\* by defaultConfigurationName, otherwise the first one of the list.
StatedDefault(objects, list_uuid) ==
  LET configs == ListedConfigurations(objects, list_uuid)
      name == GetStr(MapVal(objects, list_uuid).props, K_defaultConfigurationName)
      named == { i \in 1..Len(configs) : NamesConfiguration(objects, configs[i], name) }
  IN IF IsSome(name) /\ named # {}
     THEN Some(MapVal(objects, configs[CHOOSE i \in named : \A j \in named : i <= j].s))
     ELSE IF configs # <<>> /\ configs[1].t = "String" /\ MapHas(objects, configs[1].s)
       THEN Some(MapVal(objects, configs[1].s))
     ELSE None

\* The setting under the key in the stated default configuration.
StatedSetting(objects, target_uuid, key) ==
  LET list == GetStr(MapVal(objects, target_uuid).props, K_buildConfigurationList)
      config == StatedDefault(objects, Unwrap(list))
  IN IF IsNone(config) THEN None
     ELSE IF IsNone(GetObject(Unwrap(config).props, K_buildSettings)) THEN None
     ELSE MapGet(Unwrap(GetObject(Unwrap(config).props, K_buildSettings)), key)

\* The target is in the table and names a list of the table.
HasConfigurationList(objects, target_uuid) ==
  /\ MapHas(objects, target_uuid)
  /\ IsSome(GetStr(MapVal(objects, target_uuid).props, K_buildConfigurationList))
  /\ MapHas(objects, Unwrap(GetStr(MapVal(objects, target_uuid).props,
                                   K_buildConfigurationList)))

\* What the last getter call returned.
Returned == IF call.ret.kind = "Some" THEN Some(call.value) ELSE None

\* C21: get_build_setting(T, K) reads K from the default configuration of
\* T's configuration list: the configuration whose name equals the list's
\* defaultConfigurationName, and otherwise (no configuration has that
\* name, or the list has no defaultConfigurationName) the first
\* configuration of the list.
C21_GetBuildSettingReadsDefault ==
  (call.op = "get_build_setting" /\ HasConfigurationList(project.objects, call.uuids[1])) =>
    Returned = StatedSetting(project.objects, call.uuids[1], call.key)

\* The same for the lists that hold a defaultConfigurationName.
GetBuildSettingReadsNamedDefault ==
  (/\ call.op = "get_build_setting"
   /\ HasConfigurationList(project.objects, call.uuids[1])
   /\ IsSome(GetStr(MapVal(project.objects, ID_L).props, K_defaultConfigurationName))) =>
    Returned = StatedSetting(project.objects, call.uuids[1], call.key)

\* ------------------------------------------------------------------------
\* Order of the objects table
\* ------------------------------------------------------------------------

\* The entries in the opposite order.
Reversed(m) == [i \in 1..Len(m) |-> m[Len(m) + 1 - i]]

\* The entries with the first one moved to the end.
Rotated(m) == IF m = <<>> THEN m ELSE Tail(m) \o <<Head(m)>>

\* The text of the project with its table in another order.
WrittenWithTable(objects) == build(to_plist([project EXCEPT !.objects = objects]))

\* C22: serialization does not depend on the order of the object table:
\* two trees that hold the same uuid-to-object entries under objects in
\* different insertion orders, all else equal, are built to the same
\* bytes, the uuid annotations included.
C22_TextIndependentOfTableOrder ==
  WasWritten =>
    /\ WrittenWithTable(Reversed(project.objects)) = built
    /\ WrittenWithTable(Rotated(project.objects)) = built

\* ------------------------------------------------------------------------
\* Octal escapes
\* ------------------------------------------------------------------------

\* The greatest number of octal digits written after the backslash.
MaxOctalDigits == 3

\* '0' .. '7'
OctalDigits == 48..55

OctalDigitStrings == UNION { [1..n -> OctalDigits] : n \in 1..MaxOctalDigits }

\* Nothing, a further octal digit, a digit that is not octal, a letter.
OctalTails == { <<>>, <<52>>, <<56>>, <<97>> }

\* { a = "\digits tail"; }
OctalDocument(digits, tail) == QuotedDocument(<<92>> \o digits \o tail)

OctalDocuments == { OctalDocument(d, t) : d \in OctalDigitStrings, t \in OctalTails }

InitOctal ==
  /\ input \in OctalDocuments
  /\ pc = "start"
  /\ parsed = NoResult
  /\ built = <<>>
  /\ reparsed = NoResult
  /\ rebuilt = <<>>
  /\ ProjIdle
  /\ TextIdle

\* A quoted string that starts with an octal escape goes through the
\* round trip.
SpecOctal == InitOctal /\ [][NextRT]_vars

\* The number of leading octal digits of the text, three at most.
LeadingOctalDigits(text) ==
  CHOOSE n \in 0..3 :
    /\ n <= Len(text)
    /\ \A i \in 1..n : text[i] \in OctalDigits
    /\ (n < 3 /\ n < Len(text)) => text[n + 1] \notin OctalDigits

\* The number that one, two or three octal digits denote.
OctalNumber(digits) ==
  IF Len(digits) = 1 THEN digits[1] - 48
  ELSE IF Len(digits) = 2 THEN 8 * (digits[1] - 48) + (digits[2] - 48)
  ELSE 64 * (digits[1] - 48) + 8 * (digits[2] - 48) + (digits[3] - 48)

\* The character of a code: itself below 0x80 and above 0xFF, the entry
\* of the NeXTSTEP table from 0x80 to 0xFF.
StatedCharacter(code) ==
  IF code >= 128 /\ code <= 255 THEN NEXT_STEP_MAPPINGS[code - 127] ELSE code

\* What the text after a backslash is read as.
StatedOctal(text) ==
  <<StatedCharacter(OctalNumber(SubSeq(text, 1, LeadingOctalDigits(text))))>>
  \o SubSeq(text, LeadingOctalDigits(text) + 1, Len(text))

\* The text between the backslash and the closing quote of an octal
\* document.
AfterBackslash(document) == SubSeq(document, 9, Len(document) - 4)

\* C23: an octal escape in a quoted string consumes greedily one to three
\* octal digits after the backslash and never a fourth; the code is the
\* character itself below 0x80 and is mapped through the NeXTSTEP table in
\* 0x80..0xFF (0xE1 gives U+00C6, 0xFE and 0xFF give U+FFFD); a code above
\* 0xFF is used unmapped, and digits after the third are ordinary text.
C23_OctalEscape ==
  /\ NEXT_STEP_MAPPINGS[225 - 127] = 198
  /\ NEXT_STEP_MAPPINGS[254 - 127] = 65533
  /\ NEXT_STEP_MAPPINGS[255 - 127] = 65533
  /\ (input \in OctalDocuments /\ pc # "start") =>
       /\ parsed.ok
       /\ parsed.val = ObjectV(<<Entry(<<97>>, StringV(StatedOctal(AfterBackslash(input))))>>)

\* \1234 was read as S4, \341 as U+00C6 and \777 as U+01FF.
C23_FourthDigitIsText ==
  /\ pc = "parsed"
  /\ input = OctalDocument(<<49, 50, 51>>, <<52>>)
  /\ parsed.val = ObjectV(<<Entry(<<97>>, StringV(<<83, 52>>))>>)

\* ------------------------------------------------------------------------
\* Build setting resolution (src/project/build_settings.rs)
\* ------------------------------------------------------------------------

\* The UTF-8 bytes of one character.
Utf8OfChar(c) ==
  IF c < 128 THEN <<c>>
  ELSE IF c < 2048 THEN <<192 + (c \div 64), 128 + (c % 64)>>
  ELSE <<224 + (c \div 4096), 128 + ((c \div 64) % 64), 128 + (c % 64)>>

RECURSIVE as_bytes(_)
\* str::as_bytes
as_bytes(s) == IF s = <<>> THEN <<>> ELSE Utf8OfChar(Head(s)) \o as_bytes(Tail(s))

\* The result of a resolution: the string, or no return when the
\* recursion has no end (the process aborts on stack overflow).
Resolved(s) == [ok |-> TRUE, s |-> s]
ResolveDiverges == [ok |-> FALSE, s |-> <<>>]

\* The greatest depth of the recursion that is followed; the inputs either
\* return within it or recurse without end.
MaxDepth == 3

RECURSIVE CloseParen(_, _, _)
\* The loop that looks for the matching close paren, from index end
\* (0-based) at the given depth.
CloseParen(bytes, end, depth) ==
  IF end < Len(bytes) /\ depth > 0
  THEN LET d == IF bytes[end + 1] = 40 THEN depth + 1
                ELSE IF bytes[end + 1] = 41 THEN depth - 1
                ELSE depth
       IN IF d > 0 THEN CloseParen(bytes, end + 1, d) ELSE [depth |-> d, end |-> end]
  ELSE [depth |-> depth, end |-> end]

RECURSIVE SplitAt(_, _)
\* str::split on one byte
SplitAt(s, sep) ==
  IF \E i \in 1..Len(s) : s[i] = sep
  THEN LET i == CHOOSE j \in 1..Len(s) : s[j] = sep /\ \A k \in 1..(j - 1) : s[k] # sep
       IN <<SubSeq(s, 1, i - 1)>> \o SplitAt(SubSeq(s, i + 1, Len(s)), sep)
  ELSE <<s>>

S_lower == Cs(<<"l","o","w","e","r">>)
S_upper == Cs(<<"u","p","p","e","r">>)
S_rfc1034identifier == Cs(<<"r","f","c","1","0","3","4","i","d","e","n","t","i","f","i","e","r">>)
S_c99extidentifier == Cs(<<"c","9","9","e","x","t","i","d","e","n","t","i","f","i","e","r">>)
S_default_eq == Cs(<<"d","e","f","a","u","l","t","=">>)

\* apply_transform for the modifiers lower, upper, rfc1034identifier,
\* c99extidentifier, default= and the unknown ones, on ASCII values; the
\* modifiers that read a path (suffix, file, dir, base, standardizepath)
\* are not among the inputs.
apply_transform(value, modifier) ==
  IF modifier = S_lower THEN [i \in 1..Len(value) |-> IF IsUpper(value[i]) THEN value[i] + 32 ELSE value[i]]
  ELSE IF modifier = S_upper THEN [i \in 1..Len(value) |-> IF IsLower(value[i]) THEN value[i] - 32 ELSE value[i]]
  ELSE IF modifier = S_rfc1034identifier
    THEN [i \in 1..Len(value) |-> IF IsAlnum(value[i]) THEN value[i] ELSE 45]
  ELSE IF modifier = S_c99extidentifier
    THEN [i \in 1..Len(value) |-> IF value[i] \in {45, 32} THEN 95 ELSE value[i]]
  ELSE IF StartsWith(modifier, S_default_eq)
    THEN (IF value = <<>> THEN SubSeq(modifier, Len(S_default_eq) + 1, Len(modifier)) ELSE value)
  ELSE value

RECURSIVE ApplyTransforms(_, _)
ApplyTransforms(value, modifiers) ==
  IF modifiers = <<>> THEN value
  ELSE ApplyTransforms(apply_transform(value, Head(modifiers)), Tail(modifiers))

RECURSIVE resolve_xcode_build_setting(_, _, _)
RECURSIVE ResolveFrom(_, _, _, _)

\* The text that replaces $(inner): the variable looked up and resolved,
\* transformed, and resolved again.
Substitute(inner, table, fuel) ==
  LET parts == SplitAt(inner, 58)
      found == MapGet(table, parts[1])
      recursed == IF IsSome(found)
                  THEN resolve_xcode_build_setting(Unwrap(found), table, fuel)
                  ELSE Resolved(<<>>)
  IN IF ~recursed.ok THEN ResolveDiverges
     ELSE resolve_xcode_build_setting(ApplyTransforms(recursed.s, Tail(parts)), table, fuel)

\* The result of two pieces, in order.
ResolvedThen(first, rest) ==
  LET f == first
      r == rest
  IN IF ~f.ok THEN ResolveDiverges
     ELSE IF ~r.ok THEN ResolveDiverges
     ELSE Resolved(f.s \o r.s)

\* The loop of resolve_once from byte index i (0-based); a byte that is
\* copied is pushed as the character of its value.
ResolveFrom(bytes, i, table, fuel) ==
  IF i >= Len(bytes) THEN Resolved(<<>>)
  ELSE IF i + 1 < Len(bytes) /\ bytes[i + 1] = 36 /\ bytes[i + 2] = 40
    THEN LET close == CloseParen(bytes, i + 2, 1)
         IN IF close.depth = 0
            THEN ResolvedThen(Substitute(SubSeq(bytes, i + 3, close.end), table, fuel),
                              ResolveFrom(bytes, close.end + 1, table, fuel))
            ELSE ResolvedThen(Resolved(<<36>>), ResolveFrom(bytes, i + 1, table, fuel))
  ELSE ResolvedThen(Resolved(<<bytes[i + 1]>>), ResolveFrom(bytes, i + 1, table, fuel))

resolve_once(value, table, fuel) == ResolveFrom(as_bytes(value), 0, table, fuel)

\* What resolve_xcode_build_setting does with the result of its pass.
RecurseUntilStable(value, result, table, fuel) ==
  LET once == result
  IN IF ~once.ok THEN ResolveDiverges
     ELSE IF once.s # value THEN resolve_xcode_build_setting(once.s, table, fuel)
     ELSE once

\* fuel: the depth of recursion that is left.
resolve_xcode_build_setting(value, table, fuel) ==
  IF fuel = 0 THEN ResolveDiverges
  ELSE RecurseUntilStable(value, resolve_once(value, table, fuel - 1), table, fuel - 1)

\* ------------------------------------------------------------------------
\* Build setting resolution: inputs and claims
\* ------------------------------------------------------------------------

\* The greatest length of the values made of the alphabet.
MaxValueLen == 3

\* '$', '(', ')', 'A', 'a', e with acute accent
ValueAlphabet == {36, 40, 41, 65, 97, 233}

S_VarA == Cs(<<"$","(","A",")">>)
S_VarALower == Cs(<<"$","(","A",":","l","o","w","e","r",")">>)
S_VarB == Cs(<<"a","$","(","B",":","d","e","f","a","u","l","t","=","a",")">>)

ResolveValues ==
  UNION { [1..n -> ValueAlphabet] : n \in 0..MaxValueLen }
  \cup { S_VarA, S_VarALower, S_VarB }

\* No variable; A is aA; A is $(A); A holds a character that is not ASCII.
ResolveTables ==
  { <<>>,
    <<Entry(<<65>>, <<97, 65>>)>>,
    <<Entry(<<65>>, S_VarA)>>,
    <<Entry(<<65>>, <<233>>)>> }

InitResolve ==
  /\ token \in ResolveValues
  /\ lookup \in ResolveTables
  /\ tpc = "start"
  /\ encoded = Encoded(<<>>, <<>>, <<>>)
  /\ decoded = <<>>
  /\ RTIdle
  /\ ProjIdle

\* resolve_xcode_build_setting(token, lookup)
Resolve ==
  /\ tpc = "start"
  /\ LET result == resolve_xcode_build_setting(token, lookup, MaxDepth)
     IN IF result.ok
        THEN decoded' = result.s /\ tpc' = "resolved"
        ELSE decoded' = decoded /\ tpc' = "resolve_overflow"
  /\ UNCHANGED <<token, encoded, lookup>>
  /\ UNCHANGED rtVars
  /\ UNCHANGED projVars

SpecResolve == InitResolve /\ [][Resolve]_vars

\* The value holds $ followed by (.
HoldsVariableReference(value) ==
  \E i \in 1..(Len(value) - 1) : value[i] = 36 /\ value[i + 1] = 40

\* C24: for every value string that holds no $( sequence, whatever
\* characters it is made of, and every lookup function,
\* resolve_xcode_build_setting terminates and returns the value unchanged.
C24_PlainValueIsFixedPoint ==
  (tpc \in {"resolved", "resolve_overflow"} /\ ~HoldsVariableReference(token)) =>
    (tpc = "resolved" /\ decoded = token)

\* The same for the values made of ASCII characters.
PlainAsciiValueIsFixedPoint ==
  (/\ tpc \in {"resolved", "resolve_overflow"}
   /\ ~HoldsVariableReference(token)
   /\ \A i \in 1..Len(token) : token[i] < 128) =>
    (tpc = "resolved" /\ decoded = token)

\* ------------------------------------------------------------------------
\* create_native_target
\* ------------------------------------------------------------------------

\* The last call was create_native_target on a project whose root holds a
\* targets array.
TargetCreated ==
  /\ call.op = "create_native_target"
  /\ MapHas(before, project.root_object_uuid)
  /\ IsSome(GetArray(MapVal(before, project.root_object_uuid).props, K_targets))

\* The keys the last call added to the table.
NewKeys == MapKeys(project.objects) \ MapKeys(before)

\* The new objects of the isa.
NewOfIsa(isa) == { k \in NewKeys : MapVal(project.objects, k).isa = isa }

\* The new build configurations of the name.
NewConfigurations(config_name) ==
  { k \in NewOfIsa(XCBuildConfiguration) :
      GetStr(MapVal(project.objects, k).props, K_name) = Some(config_name) }

\* The targets of the root after the call.
RootTargets == Unwrap(GetArray(MapVal(project.objects, project.root_object_uuid).props, K_targets))

\* C25: in a project whose root has a targets array, create_native_target
\* adds exactly eight objects (the product file reference, the Debug and the
\* Release configuration, a configuration list whose default is Release, the
\* Sources, Frameworks and Resources phases and the native target), returns
\* the uuid of the new target, which is the last of the root's targets,
\* leaves every reference of the new objects naming an object of the table,
\* and get_build_setting(t, PRODUCT_BUNDLE_IDENTIFIER) is the bundle id.
C25_CreateNativeTarget ==
  TargetCreated =>
    /\ call.ret.kind = "Some"
    /\ MapKeys(before) \subseteq MapKeys(project.objects)
    /\ Len(project.objects) = Len(before) + 8
    /\ Cardinality(NewKeys) = 8
    /\ Cardinality(NewOfIsa(PBXFileReference)) = 1
    /\ Cardinality(NewConfigurations(S_Debug)) = 1
    /\ Cardinality(NewConfigurations(S_Release)) = 1
    /\ Cardinality(NewOfIsa(XCConfigurationList)) = 1
    /\ \A k \in NewOfIsa(XCConfigurationList) :
         GetStr(MapVal(project.objects, k).props, K_defaultConfigurationName) = Some(S_Release)
    /\ Cardinality(NewOfIsa(S_PBXSourcesBuildPhase)) = 1
    /\ Cardinality(NewOfIsa(PBXFrameworksBuildPhase)) = 1
    /\ Cardinality(NewOfIsa(PBXResourcesBuildPhase)) = 1
    /\ NewOfIsa(PBXNativeTarget) = {call.ret.s}
    /\ RootTargets # <<>>
    /\ RootTargets[Len(RootTargets)] = StringV(call.ret.s)
    /\ \A i \in 1..Len(find_orphaned_references(project.objects)) :
         find_orphaned_references(project.objects)[i].referrer_uuid \notin NewKeys
    /\ get_build_setting(project.objects, call.ret.s, S_PRODUCT_BUNDLE_IDENTIFIER)
         = Some(call.value)

\* A second target of the same name, product type and bundle id is created,
\* so that every one of its seeds is taken already.
C25_SameTargetCreatedTwice ==
  /\ TargetCreated
  /\ \E k \in MapKeys(before) :
       /\ MapVal(before, k).isa = PBXNativeTarget
       /\ k \notin {ID_T}
       /\ MapVal(before, k).props = [MapVal(project.objects, call.ret.s).props EXCEPT
                                       ![2] = MapVal(before, k).props[2],
                                       ![3] = MapVal(before, k).props[3],
                                       ![8] = MapVal(before, k).props[8]]

\* The product of the new target is listed in the Products group.
ProductListedInProducts ==
  (TargetCreated /\ plist = ProjProducts) =>
    \E k \in NewOfIsa(PBXFileReference) :
      HoldsReference(MapVal(MapVal(project.objects, ID_G).props, K_children), k)

\* ------------------------------------------------------------------------
\* The frame of delete_object and remove_object
\* ------------------------------------------------------------------------

\* The entries of the table before the call whose key is not uuid, in order.
OthersBefore(uuid) == SelectSeq(before, LAMBDA e : e.key # uuid)

\* The objects left by the call that refer to uuid.
ReferrersLeft(uuid) ==
  { i \in 1..Len(project.objects) : is_referencing(project.objects[i].value, uuid) }

\* Object i refers to uuid and is reported with it by find_orphaned_references.
ReportedOrphan(i, uuid) ==
  \E j \in 1..Len(find_orphaned_references(project.objects)) :
    /\ find_orphaned_references(project.objects)[j].referrer_uuid = project.objects[i].key
    /\ find_orphaned_references(project.objects)[j].orphan_uuid = uuid

\* delete_object(U) leaves the other entries as they were, and the
\* references to U are reported as orphans.
DeleteObjectFrame ==
  call.op = "delete_object" =>
    /\ project.objects = OthersBefore(call.uuids[1])
    /\ Len(project.objects) >= Len(before) - 1
    /\ call.uuids[1] # <<>> =>
         \A i \in ReferrersLeft(call.uuids[1]) : ReportedOrphan(i, call.uuids[1])

\* What remove_object(U) may make of a value under a reference key.
Erased(value, uuid) ==
  IF value.t = "String" /\ value.s = uuid THEN StringV(<<>>)
  ELSE IF value.t = "Array"
    THEN ArrayV(SelectSeq(value.items, LAMBDA item : ~(item.t = "String" /\ item.s = uuid)))
  ELSE value

\* Entry i of the table after remove_object(U) is entry i of the others
\* before it, changed under the reference keys of its isa only.
ErasedIn(i, uuid) ==
  LET was == OthersBefore(uuid)[i].value
      is == project.objects[i].value
  IN /\ project.objects[i].key = OthersBefore(uuid)[i].key
     /\ is.uuid = was.uuid
     /\ is.isa = was.isa
     /\ Len(is.props) = Len(was.props)
     /\ \A j \in 1..Len(was.props) :
          /\ is.props[j].key = was.props[j].key
          /\ is.props[j].value =
               IF \E r \in 1..Len(reference_keys(was.isa)) :
                    reference_keys(was.isa)[r] = was.props[j].key
               THEN Erased(was.props[j].value, uuid)
               ELSE was.props[j].value

RemoveObjectFrame ==
  call.op = "remove_object" =>
    /\ Len(project.objects) = Len(OthersBefore(call.uuids[1]))
    /\ \A i \in 1..Len(project.objects) : ErasedIn(i, call.uuids[1])
    /\ call.uuids[1] # <<>> => ReferrersLeft(call.uuids[1]) = {}

\* C26: delete_object(U) removes at most the entry keyed U and leaves every
\* other object unchanged, so that the references to U are orphans that
\* find_orphaned_references reports; remove_object(U) removes the entry and
\* changes in the other objects only the values under the reference keys of
\* their isa: a scalar equal to U becomes the empty string, the array
\* elements equal to U are dropped, all the rest is unchanged.
C26_DeletionFrame == DeleteObjectFrame /\ RemoveObjectFrame

\* remove_object has blanked a scalar reference and shortened an array.
C26_ReferencesErased ==
  /\ call.op = "remove_object"
  /\ MapHas(before, call.uuids[1])
  /\ \E i \in 1..Len(project.objects) :
       \E j \in 1..Len(project.objects[i].value.props) :
         /\ project.objects[i].value.props[j].value = StringV(<<>>)
         /\ OthersBefore(call.uuids[1])[i].value.props[j].value = StringV(call.uuids[1])
  /\ \E i \in 1..Len(project.objects) :
       \E j \in 1..Len(project.objects[i].value.props) :
         /\ project.objects[i].value.props[j].value.t = "Array"
         /\ Len(project.objects[i].value.props[j].value.items)
              < Len(OthersBefore(call.uuids[1])[i].value.props[j].value.items)

\* delete_object has left a reference to the object it removed.
DeletedObjectIsOrphan ==
  /\ call.op = "delete_object"
  /\ MapHas(before, call.uuids[1])
  /\ ReferrersLeft(call.uuids[1]) # {}

\* ------------------------------------------------------------------------
\* Termination of the comment resolver
\* ------------------------------------------------------------------------

\* C27: the comment resolver terminates and returns a map for every
\* objects table, the build files whose fileRef names a build file (itself,
\* or one that leads back to it) included, so that build(V) terminates for
\* every tree V.
C27_ResolverTerminates ==
  /\ pc \notin {"build_overflow", "rebuild_overflow"}
  /\ (pc # "start" /\ parsed.ok) => create_reference_list(parsed.val).ok

\* Some build file of the table names a build file under fileRef, or under
\* productRef when it has no fileRef.
BuildFileNamesBuildFile(objects) ==
  \E id \in BuildFileIds(objects) :
    /\ IsSome(RefIdOf(MapVal(objects, id).items))
    /\ Unwrap(RefIdOf(MapVal(objects, id).items)) \in BuildFileIds(objects)

\* Where no build file names a build file the resolver returns a map,
\* whatever else the references of the table name.
ResolverTerminatesWithoutBuildFileChain ==
  (pc # "start" /\ parsed.ok /\ ~BuildFileNamesBuildFile(objects_of(parsed.val))) =>
    /\ create_reference_list(parsed.val).ok
    /\ pc \notin {"build_overflow", "rebuild_overflow"}

\* A build file names an object that is not in the table and the text is built.
MissingReferenceBuilt ==
  /\ WasBuilt
  /\ \E id \in BuildFileIds(objects_of(parsed.val)) :
       /\ IsSome(RefIdOf(MapVal(objects_of(parsed.val), id).items))
       /\ ~MapHas(objects_of(parsed.val), Unwrap(RefIdOf(MapVal(objects_of(parsed.val), id).items)))

\* ------------------------------------------------------------------------
\* Orphan-freedom
\* ------------------------------------------------------------------------

\* The operations that are to keep the table free of orphans.
OrphanFreeOps ==
  {"add_file", "add_group", "add_build_file", "ensure_build_phase", "add_framework",
   "add_dependency", "create_native_target", "embed_extension",
   "add_file_system_sync_group", "remove_object"}

\* The last call was one of them, on a table without orphans, its uuid
\* arguments were keys of the table, and it did not remove the root object.
OrphanFreeCall ==
  /\ call.op \in OrphanFreeOps
  /\ find_orphaned_references(before) = <<>>
  /\ \A i \in 1..Len(call.uuids) : MapHas(before, call.uuids[i])
  /\ ~(call.op = "remove_object" /\ call.uuids[1] = project.root_object_uuid)

WasLoaded == lpc \in {"loaded", "written", "write_overflow"}

\* The isa that the writer serializes: the string under isa, Unknown when
\* there is none.
StoredIsa(obj) == Unwrap(OrElse(GetStr(obj.props, K_isa), Some(S_Unknown)))

\* C29: in every state reached from a successful load by facade
\* operations, every entry (k, o) of the table has o.uuid = k and o.isa equal
\* to the string stored in o.props["isa"] (Unknown when absent).
C29_TypedViewConsistent ==
  WasLoaded =>
    \A i \in 1..Len(project.objects) :
      /\ project.objects[i].value.uuid = project.objects[i].key
      /\ project.objects[i].value.isa = StoredIsa(project.objects[i].value)

\* Every entry has its key as uuid, and its isa is the stored one unless
\* the stored one is what set_object_property wrote.
TypedViewConsistentUnlessIsaSet ==
  WasLoaded =>
    \A i \in 1..Len(project.objects) :
      /\ project.objects[i].value.uuid = project.objects[i].key
      /\ \/ project.objects[i].value.isa = StoredIsa(project.objects[i].value)
         \/ StoredIsa(project.objects[i].value) = S_x

\* ------------------------------------------------------------------------
\* The two views of the references of an object
\* ------------------------------------------------------------------------

\* The keys of the table that are not empty.
HeldIds == MapKeys(project.objects) \ {<<>>}

\* C30: for every object R of the table and every key u of the table that
\* is not empty, the uuids minted by create_object included, u is in
\* R.collect_references() (and R.get_reference_uuids()) if and only if
\* R.is_referencing(u).
C30_ReferenceViewsAgree ==
  WasLoaded =>
    \A i \in 1..Len(project.objects) : \A u \in HeldIds :
      /\ u \in collect_references(project.objects[i].value)
           <=> is_referencing(project.objects[i].value, u)
      /\ u \in get_reference_uuids(project.objects[i].value)
           <=> is_referencing(project.objects[i].value, u)

\* The same for the keys made of 24 hexadecimal digits.
ReferenceViewsAgreeOnHexIds ==
  WasLoaded =>
    \A i \in 1..Len(project.objects) : \A u \in { h \in HeldIds : looks_like_uuid(h) } :
      u \in collect_references(project.objects[i].value)
        <=> is_referencing(project.objects[i].value, u)

\* An object refers to a uuid that create_object minted.
MintedIdReferenced ==
  /\ WasLoaded
  /\ \E i \in 1..Len(project.objects) : \E u \in HeldIds :
       /\ Len(u) = Len(make_uuid(<<>>)) /\ StartsWith(u, <<88, 88>>) /\ EndsWith(u, <<88, 88>>)
       /\ is_referencing(project.objects[i].value, u)
       /\ u \notin collect_references(project.objects[i].value)

====
